---- MODULE Spec2Model ----
(***************************************************************************)
(* MRAM test scripts of the AS3004316 controller repository:               *)
(*   march_test.py  March C, walking 1s/0s, checkerboard, address          *)
(*                  uniqueness, and the session that runs them;            *)
(*   main.py        write-then-read-back test (run_test) and its session;  *)
(*   mram_test.py   the interactive terminal;                              *)
(*   non_volatility_test.py  write a test vector, power cycle, verify;     *)
(*   the wire codec shared by all scripts (write_mram / read_mram).        *)
(* The device on the other side of the serial line is the environment: a   *)
(* word memory addressed by the 18-bit address field of the command, that  *)
(* answers a read with the two bytes of the stored word, except for at     *)
(* most MaxGlitch reads per session that it answers late (0 or 1 byte in   *)
(* the window) or with another word.  Further device kinds (variable dev)  *)
(* let late answers arrive during later commands, alias addresses, or hold *)
(* one bit of one cell stuck.                                              *)
(***************************************************************************)
EXTENDS Integers, Sequences, FiniteSets, TLC

VARIABLES
    prog,        \* what runs: "march_test", "main", "mram_test", "codec", "call",
                 \* "nonvol"
    pc,          \* position of the script
    choice,      \* march_test.main: the menu choice
    start_addr,  \* first address of the current range
    end_addr,    \* last address of the current range
    phase,       \* phase / pass of the running algorithm
    i,           \* loop index of the running loop (enumerate)
    sub,         \* "r" or "w": position inside a read-then-write iteration
    data,        \* value returned by the last read_mram
    errors,      \* the running algorithm's local error list
    all_errors,  \* the session's error list
    results,     \* main.run_test: (addr, expected, actual) list
    test_no,     \* main.main: which run_test call is running
    ser,         \* serial connection: "none", "open", "closed"
    wire,        \* the bytes of the last command sent
    mem,         \* device: words written so far, by wire address
    fill,        \* device: content of every cell never written
    glitches,    \* device: reads not answered with the stored word so far
    trace,       \* history of the commands issued and their responses
    dev,         \* device: its kind, "plain", "late", "xor1" or "fold16"
    inflight,    \* device: response bytes sent but not yet arrived
    rx,          \* serial port: the bytes waiting in its input buffer
    stuck,       \* device: the cell bit that is stuck, if any
    file,        \* non_volatility_test: the persisted test vector
    test_data,   \* non_volatility_test.verify_test_data: the vector loaded
    printed,     \* march_test.print_summary: what it has printed
    line,        \* mram_test: the input line handled last, split in words
    cAddr,       \* codec check: address input
    cWord,       \* codec check: word input
    cOut         \* codec check: output

vars == <<prog, pc, choice, start_addr, end_addr, phase, i, sub, data, errors,
          all_errors, results, test_no, ser, wire, mem, fill, glitches, inflight, rx,
          trace, dev, stuck, file, test_data, printed, line, cAddr, cWord, cOut>>

(***************************************************************************)
(* Bounds of the model.                                                    *)
(***************************************************************************)
\* longest custom range [start, end] of a march_test session
MaxLen == 2
\* most reads per session the device answers otherwise than an ideal memory
MaxGlitch == 1

(***************************************************************************)
(* Program constants.                                                      *)
(***************************************************************************)
\* 0x57, opcode of the write command
OP_WRITE == 87
\* 0x52, opcode of the read command
OP_READ == 82
\* 0x3FFFF, last address of the MRAM
FULL_END == 262143
\* 0xDEAD, value march_test's read_mram returns when no response arrived
DEAD == 57005
\* 0xFFFF
ALL_ONES == 65535
\* 0xAAAA and 0x5555, the checkerboard patterns
PAT_AAAA == 43690
PAT_5555 == 21845
\* 0xAA55 and 0x55AA, the "aa55" pattern of run_test
PAT_AA55 == 43605
PAT_55AA == 21930
\* number of walking patterns
WALK_COUNT == 16
\* walking_zeros_test start address 0x00100
WALK0_START == 256
\* main.main: run_test count
RT_COUNT == 8
\* main.read_mram returns None when no response arrived: no int equals it
None == -1
\* print_summary lists the first 20 fault records
SUMMARY_MAX == 20
\* the words of the device: a data word has 16 bits
WORDS == 65536

(***************************************************************************)
(* Python int operators on non-negative integers.                          *)
(***************************************************************************)
RECURSIVE BitAnd(_, _)
BitAnd(a, b) ==
    IF a = 0 \/ b = 0 THEN 0
    ELSE (a % 2) * (b % 2) + 2 * BitAnd(a \div 2, b \div 2)

RECURSIVE BitOr(_, _)
BitOr(a, b) ==
    IF a = 0 THEN b
    ELSE IF b = 0 THEN a
    ELSE (IF a % 2 = 1 \/ b % 2 = 1 THEN 1 ELSE 0) + 2 * BitOr(a \div 2, b \div 2)

ShiftR(a, k) == a \div (2 ^ k)

ShiftL(a, k) == a * (2 ^ k)

(***************************************************************************)
(* The wire codec.                                                         *)
(***************************************************************************)
\* the high byte keeps one bit of the address instead of two
AddrBytesOneBit(addr) ==
    << BitAnd(ShiftR(addr, 16), 1), BitAnd(ShiftR(addr, 8), 255), BitAnd(addr, 255) >>

AddrBytes(addr) ==
    << BitAnd(ShiftR(addr, 16), 3), BitAnd(ShiftR(addr, 8), 255), BitAnd(addr, 255) >>

DataBytes(d) ==
    << BitAnd(ShiftR(d, 8), 255), BitAnd(d, 255) >>

EncodeWrite(addr, d) == <<OP_WRITE>> \o AddrBytes(addr) \o DataBytes(d)

EncodeRead(addr) == <<OP_READ>> \o AddrBytes(addr)

\* the response taken low byte first
DecodeResponseLittle(response) == BitOr(ShiftL(response[2], 8), response[1])

DecodeResponse(response) == BitOr(ShiftL(response[1], 8), response[2])

\* march_test.read_mram: the value returned for the bytes that arrived in time
ReadResult(resp) == IF Len(resp) >= 2 THEN DecodeResponse(resp) ELSE DEAD

\* main.read_mram: the value returned for the bytes that arrived in time
ReadResultMain(resp) == IF Len(resp) >= 2 THEN DecodeResponse(resp) ELSE None

(***************************************************************************)
(* The device behind the serial line.                                      *)
(***************************************************************************)
WireAddr(cmd) == cmd[2] * 65536 + cmd[3] * 256 + cmd[4]

WireData(cmd) == cmd[5] * 256 + cmd[6]

\* a ^ 0x1
Xor1(a) == IF a % 2 = 0 THEN a + 1 ELSE a - 1

\* no cell has a stuck bit
NoStuck == [addr |-> -1, bit |-> 0, val |-> 0]

\* no test vector has been persisted
NoFile == [exists |-> FALSE, entries |-> << >>]

\* the word w with bit st.bit held at st.val
Force(w, st) ==
    LET b == 2 ^ st.bit
        has == (w \div b) % 2
    IN  w + (st.val - has) * b

\* The device kinds:
\*   "plain"   one cell per address; answers within the window except for
\*             MaxGlitch reads
\*   "late"    one cell per address; always answers with the stored word, but
\*             MaxGlitch answers leave the device too late for the window
\*   "xor1"    every write to address A also overwrites address A ^ 0x1
\*   "fold16"  the decoder ignores address bits 16 and 17: A and A + 0x10000
\*             are one cell
\*   "stuck"   one cell per address; one bit of one cell always reads as 0, or
\*             always as 1, whatever is written to it
\* A "fold16" memory is kept as a list of runs [lo, hi, w], cell c of lo..hi
\* holding w + (c - lo), a later run overriding an earlier one; the other
\* kinds keep a function from cell to word.
RunsOf(m, c) == {k \in 1..Len(m) : m[k].lo <= c /\ c <= m[k].hi}

LastOf(S) == CHOOSE x \in S : \A y \in S : y <= x

StoredRun(m, f, c) ==
    IF RunsOf(m, c) = {} THEN f
    ELSE LET r == m[LastOf(RunsOf(m, c))] IN r.w + (c - r.lo)

StoreRun(m, c, d) ==
    IF m # << >> /\ m[Len(m)].hi + 1 = c /\ m[Len(m)].w + (c - m[Len(m)].lo) = d
    THEN [m EXCEPT ![Len(m)].hi = c]
    ELSE Append(m, [lo |-> c, hi |-> c, w |-> d])

Stored(m, f, a) ==
    IF dev = "fold16" THEN StoredRun(m, f, a % WORDS)
    ELSE LET w == IF a \in DOMAIN m THEN m[a] ELSE f IN
         IF dev = "stuck" /\ a = stuck.addr THEN Force(w, stuck) ELSE w

DeviceStore(m, cmd) ==
    CASE dev = "fold16" -> StoreRun(m, WireAddr(cmd) % WORDS, WireData(cmd))
      [] dev = "xor1" -> (WireAddr(cmd) :> WireData(cmd))
                         @@ (Xor1(WireAddr(cmd)) :> WireData(cmd)) @@ m
      [] OTHER -> (WireAddr(cmd) :> WireData(cmd)) @@ m

IdealResponse(m, f, cmd) ==
    LET w == Stored(m, f, WireAddr(cmd)) IN << w \div 256, w % 256 >>

\* what can be in the input buffer when read_mram looks at it
DeviceResponses(m, f, cmd, g) ==
    LET ideal == IdealResponse(m, f, cmd) IN
    {ideal} \cup (IF g < MaxGlitch /\ dev = "plain"
                  THEN {<< >>, <<ideal[1]>>, <<222, 173>>}
                  ELSE {})

IsTimeout(resp) == Len(resp) < 2

\* the bytes of the answer to the n-th command, each with that number and
\* its place in the answer
Tagged(resp, n) == [k \in 1..Len(resp) |-> [b |-> resp[k], of |-> n, ix |-> k]]

Bytes(s) == [k \in 1..Len(s) |-> s[k].b]

Owners(s) == [k \in 1..Len(s) |-> s[k].of]

Places(s) == [k \in 1..Len(s) |-> s[k].ix]

\* the input buffer is left as it is
ResetInputBufferKeeps(buf) == buf

\* self.ser.reset_input_buffer()
ResetInputBuffer(buf) == << >>

\* what self.ser.read(2) leaves in a buffer of at least 2 bytes; a shorter
\* buffer is not read
AfterRead(buf) == IF Len(buf) >= 2 THEN SubSeq(buf, 3, Len(buf)) ELSE buf

\* the history of commands; none is kept of the run over 0x10001 addresses
History(e) == IF dev = "fold16" THEN trace ELSE Append(trace, e)


(***************************************************************************)
(* march_test.py: one write_mram / read_mram call with the device's part.  *)
(***************************************************************************)
\* uart.write_mram(addr, d): the command goes out, the device stores the word
WriteMram(addr, d, tag) ==
    LET cmd == EncodeWrite(addr, d) IN
    /\ wire' = cmd
    /\ mem' = DeviceStore(mem, cmd)
    /\ trace' = History([op |-> "W", addr |-> addr, tag |-> tag,
                          val |-> d, resp |-> << >>])
    /\ \E k \in 0..Len(inflight) :
          /\ inflight' = SubSeq(inflight, k + 1, Len(inflight))
          /\ rx' = ResetInputBuffer(rx \o SubSeq(inflight, 1, k))
    /\ UNCHANGED <<fill, glitches>>

\* the input buffer at the end of the response window of a read command
\* whose window the bytes resp arrive in
Window(resp) == ResetInputBuffer(rx) \o Tagged(resp, Len(trace) + 1)

\* the read command goes out and resp is what arrives in the response window
Exchange(addr, expected, tag, resp) ==
    LET cmd == EncodeRead(addr) IN
    /\ wire' = cmd
    /\ glitches' = glitches + (IF resp = IdealResponse(mem, fill, cmd) THEN 0 ELSE 1)
    /\ rx' = AfterRead(Window(resp))
    /\ trace' = History([op |-> "R", addr |-> addr, tag |-> tag,
                          val |-> expected, resp |-> Bytes(Window(resp))])
    /\ UNCHANGED <<mem, fill, inflight>>

\* read_mram of march_test.py on a "late" device.  Of the bytes still on
\* their way, the first k1 arrive before reset_input_buffer() and are dropped,
\* the next k2 - k1 arrive in the response window; m bytes of the answer to
\* this command arrive in the window, behind every earlier byte.  ser.read(2)
\* takes the first two bytes of the buffer.
LateRead(addr, expected, tag) ==
    LET cmd == EncodeRead(addr)
        own == Tagged(IdealResponse(mem, fill, cmd), Len(trace) + 1)
        L   == Len(inflight)
    IN  \E k1 \in 0..L : \E k2 \in k1..L : \E m \in 0..2 :
            /\ (m > 0 => k2 = L)
            /\ (m < 2 => glitches < MaxGlitch)
            /\ LET buf == ResetInputBuffer(rx \o SubSeq(inflight, 1, k1))
                           \o SubSeq(inflight, k1 + 1, k2) \o SubSeq(own, 1, m)
               IN
                /\ wire' = cmd
                /\ glitches' = glitches + (IF m < 2 THEN 1 ELSE 0)
                /\ inflight' = SubSeq(inflight, k2 + 1, L) \o SubSeq(own, m + 1, 2)
                /\ rx' = AfterRead(buf)
                /\ data' = ReadResult(Bytes(buf))
                /\ trace' = Append(trace, [op |-> "R", addr |-> addr, tag |-> tag,
                                           val |-> expected, resp |-> Bytes(buf),
                                           src |-> Owners(buf), ix |-> Places(buf),
                                           ret |-> ReadResult(Bytes(buf))])
                /\ UNCHANGED <<mem, fill>>

\* data = uart.read_mram(addr) of march_test.py
ReadMram(addr, expected, tag) ==
    IF dev = "late"
    THEN LateRead(addr, expected, tag)
    ELSE \E resp \in DeviceResponses(mem, fill, EncodeRead(addr), glitches) :
            /\ Exchange(addr, expected, tag, resp)
            /\ data' = ReadResult(Bytes(Window(resp)))

\* actual = uart.read_mram(addr) of main.py
ReadMramMain(addr, expected, tag) ==
    \E resp \in DeviceResponses(mem, fill, EncodeRead(addr), glitches) :
        /\ Exchange(addr, expected, tag, resp)
        /\ data' = ReadResultMain(Bytes(Window(resp)))

\* a record is appended when the value read is the expected one
ReportOnMatch(errs, addr, tag, expected, d) ==
    IF d = expected THEN Append(errs, <<addr, tag, expected, d>>) ELSE errs

\* if data != expected: errors.append((addr, tag, expected, data))
Report(errs, addr, tag, expected, d) ==
    IF d # expected THEN Append(errs, <<addr, tag, expected, d>>) ELSE errs

\* only the records of addresses not yet in the session's list are added
ExtendNewAddresses(all, errs) ==
    LET IsNew(r) == \A k \in 1..Len(all) : all[k][1] # r[1] IN
    all \o SelectSeq(errs, IsNew)

\* all_errors.extend(errors)
Extend(all, errs) == all \o errs

\* the algorithm returns as soon as its error list is not empty
NextIterAbort(n, lastPhase, retpc) ==
    IF errors # << >>
    THEN /\ i' = 0
         /\ pc' = retpc
         /\ UNCHANGED phase
    ELSE IF i + 1 < n
         THEN /\ i' = i + 1
              /\ UNCHANGED <<phase, pc>>
         ELSE IF phase < lastPhase
              THEN /\ i' = 0
                   /\ phase' = phase + 1
                   /\ UNCHANGED pc
              ELSE /\ i' = 0
                   /\ pc' = retpc
                   /\ UNCHANGED phase

\* each address goes through every phase before the next address is taken
NextIterPhaseFirst(n, lastPhase, retpc) ==
    IF phase < lastPhase
    THEN /\ phase' = phase + 1
         /\ UNCHANGED <<i, pc>>
    ELSE IF i + 1 < n
         THEN /\ i' = i + 1
              /\ phase' = 1
              /\ UNCHANGED pc
         ELSE /\ i' = 0
              /\ pc' = retpc
              /\ UNCHANGED phase

\* the for loops: next index, next phase, or the algorithm's return
NextIter(n, lastPhase, retpc) ==
    IF i + 1 < n
    THEN /\ i' = i + 1
         /\ UNCHANGED <<phase, pc>>
    ELSE IF phase < lastPhase
         THEN /\ i' = 0
              /\ phase' = phase + 1
              /\ UNCHANGED pc
         ELSE /\ i' = 0
              /\ pc' = retpc
              /\ UNCHANGED phase

Total == end_addr - start_addr + 1

(***************************************************************************)
(* march_c_test                                                            *)
(***************************************************************************)
\* every phase walks upwards
MarchAddrAscending(p, k) == start_addr + k

MarchAddr(p, k) == IF p \in {4, 5} THEN end_addr - k ELSE start_addr + k

\* phase 6 expects what phase 5 read
MarchExpectStale(p) == IF p \in {2, 4} THEN 0 ELSE ALL_ONES

MarchExpect(p) == IF p \in {2, 4, 6} THEN 0 ELSE ALL_ONES

\* every phase writes 0x0000
MarchPatternAllZero(p) == 0

\* phase 5 writes the pattern of phase 4
MarchPatternNoRestore(p) == IF p \in {1, 3} THEN 0 ELSE ALL_ONES

MarchPattern(p) == IF p \in {1, 3, 5} THEN 0 ELSE ALL_ONES

MarchTag(p) ==
    CASE p = 1 -> "Phase1" [] p = 2 -> "Phase2" [] p = 3 -> "Phase3"
      [] p = 4 -> "Phase4" [] p = 5 -> "Phase5" [] OTHER -> "Phase6"

\* Phase 1: write 0 everywhere
March_Phase1 ==
    /\ pc = "march" /\ phase = 1
    /\ WriteMram(MarchAddr(1, i), MarchPattern(1), MarchTag(1))
    /\ NextIter(Total, 6, "march_ret")
    /\ UNCHANGED <<prog, dev, stuck, file, test_data, line, printed, choice, start_addr, end_addr, sub, data, errors,
                   all_errors, results, test_no, ser, cAddr, cWord, cOut>>

\* Phases 2..5: the read and the comparison of one iteration
March_Read ==
    /\ pc = "march" /\ phase \in 2..5 /\ sub = "r"
    /\ ReadMram(MarchAddr(phase, i), MarchExpect(phase), MarchTag(phase))
    /\ errors' = Report(errors, MarchAddr(phase, i), MarchTag(phase),
                        MarchExpect(phase), data')
    /\ sub' = "w"
    /\ UNCHANGED <<prog, dev, stuck, file, test_data, line, printed, pc, choice, start_addr, end_addr, phase, i,
                   all_errors, results, test_no, ser, cAddr, cWord, cOut>>

\* Phases 2..5: the write that ends the iteration
March_Write ==
    /\ pc = "march" /\ phase \in 2..5 /\ sub = "w"
    /\ WriteMram(MarchAddr(phase, i), MarchPattern(phase), MarchTag(phase))
    /\ sub' = "r"
    /\ NextIter(Total, 6, "march_ret")
    /\ UNCHANGED <<prog, dev, stuck, file, test_data, line, printed, choice, start_addr, end_addr, data, errors,
                   all_errors, results, test_no, ser, cAddr, cWord, cOut>>

\* Phase 6: read 0 everywhere
March_Phase6 ==
    /\ pc = "march" /\ phase = 6
    /\ ReadMram(MarchAddr(6, i), MarchExpect(6), MarchTag(6))
    /\ errors' = Report(errors, MarchAddr(6, i), MarchTag(6), MarchExpect(6), data')
    /\ NextIter(Total, 6, "march_ret")
    /\ UNCHANGED <<prog, dev, stuck, file, test_data, line, printed, choice, start_addr, end_addr, sub,
                   all_errors, results, test_no, ser, cAddr, cWord, cOut>>

\* return len(errors) == 0, errors; main: all_errors.extend(errors)
March_Return ==
    /\ pc = "march_ret"
    /\ all_errors' = Extend(all_errors, errors)
    /\ errors' = << >>
    /\ pc' = "checker" /\ phase' = 1 /\ i' = 0
    /\ UNCHANGED <<prog, dev, stuck, file, test_data, line, printed, choice, start_addr, end_addr, sub, data, results, test_no,
                   ser, wire, mem, fill, glitches, inflight, rx, trace, cAddr, cWord, cOut>>


(***************************************************************************)
(* checkerboard_test: passes 1 and 3 write, passes 2 and 4 verify          *)
(***************************************************************************)
\* the inverse pass repeats the first pass
CheckerPatternSame(p, k) == IF k % 2 = 0 THEN PAT_AAAA ELSE PAT_5555

\* one pattern for the whole range in each pass
CheckerPatternFlat(p, k) == IF p \in {1, 2} THEN PAT_AAAA ELSE PAT_5555

CheckerPattern(p, k) ==
    IF p \in {1, 2}
    THEN (IF k % 2 = 0 THEN PAT_AAAA ELSE PAT_5555)
    ELSE (IF k % 2 = 0 THEN PAT_5555 ELSE PAT_AAAA)

CheckerTag(p) == IF p \in {1, 2} THEN "Checkerboard" ELSE "InvCheckerboard"

Checker_Write ==
    /\ pc = "checker" /\ phase \in {1, 3}
    /\ WriteMram(start_addr + i, CheckerPattern(phase, i), CheckerTag(phase))
    /\ NextIter(Total, 4, "checker_ret")
    /\ UNCHANGED <<prog, dev, stuck, file, test_data, line, printed, choice, start_addr, end_addr, sub, data, errors,
                   all_errors, results, test_no, ser, cAddr, cWord, cOut>>

Checker_Verify ==
    /\ pc = "checker" /\ phase \in {2, 4}
    /\ ReadMram(start_addr + i, CheckerPattern(phase, i), CheckerTag(phase))
    /\ errors' = Report(errors, start_addr + i, CheckerTag(phase),
                        CheckerPattern(phase, i), data')
    /\ NextIter(Total, 4, "checker_ret")
    /\ UNCHANGED <<prog, dev, stuck, file, test_data, line, printed, choice, start_addr, end_addr, sub,
                   all_errors, results, test_no, ser, cAddr, cWord, cOut>>

Checker_Return ==
    /\ pc = "checker_ret"
    /\ all_errors' = Extend(all_errors, errors)
    /\ errors' = << >>
    /\ pc' = "unique" /\ phase' = 1 /\ i' = 0
    /\ UNCHANGED <<prog, dev, stuck, file, test_data, line, printed, choice, start_addr, end_addr, sub, data, results, test_no,
                   ser, wire, mem, fill, glitches, inflight, rx, trace, cAddr, cWord, cOut>>

(***************************************************************************)
(* address_uniqueness_test: pass 1 writes, pass 2 verifies                 *)
(***************************************************************************)
\* the data leaves out bit 0 of the address
UniqueDataEven(addr) == BitAnd(addr, ALL_ONES - 1)

UniqueData(addr) == BitAnd(addr, ALL_ONES)

Unique_Write ==
    /\ pc = "unique" /\ phase = 1
    /\ WriteMram(start_addr + i, UniqueData(start_addr + i), "AddressUnique")
    /\ NextIter(Total, 2, "unique_ret")
    /\ UNCHANGED <<prog, dev, stuck, file, test_data, line, printed, choice, start_addr, end_addr, sub, data, errors,
                   all_errors, results, test_no, ser, cAddr, cWord, cOut>>

Unique_Verify ==
    /\ pc = "unique" /\ phase = 2
    /\ ReadMram(start_addr + i, UniqueData(start_addr + i), "AddressUnique")
    /\ errors' = Report(errors, start_addr + i, "AddressUnique",
                        UniqueData(start_addr + i), data')
    /\ NextIter(Total, 2, "unique_ret")
    /\ UNCHANGED <<prog, dev, stuck, file, test_data, line, printed, choice, start_addr, end_addr, sub,
                   all_errors, results, test_no, ser, cAddr, cWord, cOut>>

Unique_Return ==
    /\ pc = "unique_ret"
    /\ all_errors' = Extend(all_errors, errors)
    /\ errors' = << >>
    /\ pc' = "summary" /\ phase' = 1 /\ i' = 0
    /\ UNCHANGED <<prog, dev, stuck, file, test_data, line, printed, choice, start_addr, end_addr, sub, data, results, test_no,
                   ser, wire, mem, fill, glitches, inflight, rx, trace, cAddr, cWord, cOut>>

(***************************************************************************)
(* walking_ones_test (pc "walk1") and walking_zeros_test (pc "walk0")      *)
(***************************************************************************)
\* patterns[k] of walking_ones_test
WalkOnes(k) == ShiftL(1, k)

\* the cleared bit is one place further up
WalkZerosRotated(k) == ALL_ONES - ShiftL(1, (k + 1) % WALK_COUNT)

\* patterns[k] of walking_zeros_test: ~(1 << k) & 0xFFFF
WalkZeros(k) == ALL_ONES - ShiftL(1, k)

WalkPattern(which, k) == IF which = "walk1" THEN WalkOnes(k) ELSE WalkZeros(k)

WalkTag(which) == IF which = "walk1" THEN "Walking1s" ELSE "Walking0s"

Walk_Write ==
    /\ pc \in {"walk1", "walk0"} /\ phase = 1
    /\ WriteMram(start_addr + i, WalkPattern(pc, i), WalkTag(pc))
    /\ NextIter(WALK_COUNT, 2, IF pc = "walk1" THEN "walk1_ret" ELSE "walk0_ret")
    /\ UNCHANGED <<prog, dev, stuck, file, test_data, line, printed, choice, start_addr, end_addr, sub, data, errors,
                   all_errors, results, test_no, ser, cAddr, cWord, cOut>>

Walk_Verify ==
    /\ pc \in {"walk1", "walk0"} /\ phase = 2
    /\ ReadMram(start_addr + i, WalkPattern(pc, i), WalkTag(pc))
    /\ errors' = Report(errors, start_addr + i, WalkTag(pc), WalkPattern(pc, i), data')
    /\ NextIter(WALK_COUNT, 2, IF pc = "walk1" THEN "walk1_ret" ELSE "walk0_ret")
    /\ UNCHANGED <<prog, dev, stuck, file, test_data, line, printed, choice, start_addr, end_addr, sub,
                   all_errors, results, test_no, ser, cAddr, cWord, cOut>>

\* walking_ones_test returns; main calls walking_zeros_test(uart, 0x00100, 16)
Walk1_Return ==
    /\ pc = "walk1_ret"
    /\ all_errors' = Extend(all_errors, errors)
    /\ errors' = << >>
    /\ pc' = "walk0" /\ phase' = 1 /\ i' = 0
    /\ start_addr' = WALK0_START /\ end_addr' = WALK0_START + WALK_COUNT - 1
    /\ UNCHANGED <<prog, dev, stuck, file, test_data, line, printed, choice, sub, data, results, test_no,
                   ser, wire, mem, fill, glitches, inflight, rx, trace, cAddr, cWord, cOut>>

Walk0_Return ==
    /\ pc = "walk0_ret"
    /\ all_errors' = Extend(all_errors, errors)
    /\ errors' = << >>
    /\ pc' = "summary" /\ phase' = 1 /\ i' = 0
    /\ UNCHANGED <<prog, dev, stuck, file, test_data, line, printed, choice, start_addr, end_addr, sub, data, results, test_no,
                   ser, wire, mem, fill, glitches, inflight, rx, trace, cAddr, cWord, cOut>>

(***************************************************************************)
(* march_test.main                                                         *)
(***************************************************************************)
\* custom range start addresses tried: 0x00000, 0xDEAC, 0x3FFFF
Starts == {0, 57004, 262143}

\* device: what the cells hold before the session
Fills == {0, ALL_ONES}

\* state after the menu: choice '5' (custom range) or '6' (bit tests only).
\* The presets '1'..'4' are ranges [0, end] of 1K addresses and more, run by
\* the same code as a custom range; only non-empty ranges are entered here
\* (with end < start, progress_bar(0, 0) divides by zero in phase 1).
InitMarch ==
    /\ prog = "march_test"
    /\ pc = "connect"
    /\ choice \in {"5", "6"}
    /\ start_addr \in (IF choice = "5" THEN Starts ELSE {0})
    /\ end_addr \in (IF choice = "5"
                     THEN {start_addr + n - 1 : n \in 1..MaxLen}
                     ELSE {WALK_COUNT - 1})
    /\ phase = 1 /\ i = 0 /\ sub = "r" /\ data = 0
    /\ errors = << >> /\ all_errors = << >>
    /\ results = << >> /\ test_no = 0
    /\ ser = "none"
    /\ wire = << >>
    /\ mem = << >>
    /\ fill \in Fills
    /\ glitches = 0
    /\ dev = "plain" /\ inflight = << >> /\ rx = << >>
    /\ stuck = NoStuck /\ file = NoFile /\ test_data = << >>
    /\ printed = << >> /\ line = << >>
    /\ trace = << >>
    /\ cAddr = 0 /\ cWord = 0 /\ cOut = << >>

\* uart = MRAMUART(PORT, BAUDRATE); all_errors = []; the first test is called
Connect ==
    /\ prog = "march_test" /\ pc = "connect"
    /\ ser' = "open"
    /\ all_errors' = << >> /\ errors' = << >>
    /\ pc' = (IF choice = "6" THEN "walk1" ELSE "march")
    /\ phase' = 1 /\ i' = 0
    /\ UNCHANGED <<prog, dev, stuck, file, test_data, line, printed, choice, start_addr, end_addr, sub, data, results, test_no,
                   wire, mem, fill, glitches, inflight, rx, trace, cAddr, cWord, cOut>>

\* print_summary(all_errors)
PrintSummary ==
    /\ pc = "summary"
    /\ printed' = <<[total |-> Len(all_errors),
                     shown |-> SubSeq(all_errors, 1,
                                      IF Len(all_errors) > SUMMARY_MAX
                                      THEN SUMMARY_MAX ELSE Len(all_errors))]>>
    /\ pc' = "close"
    /\ UNCHANGED <<prog, dev, stuck, file, test_data, line, choice, start_addr, end_addr, phase, i, sub, data, errors,
                   all_errors, results, test_no, ser, wire, mem, fill, glitches, inflight, rx,
                   trace, cAddr, cWord, cOut>>

\* uart.close()
Close ==
    /\ prog = "march_test" /\ pc = "close"
    /\ ser' = "closed"
    /\ pc' = "done"
    /\ UNCHANGED <<prog, dev, stuck, file, test_data, line, printed, choice, start_addr, end_addr, phase, i, sub, data, errors,
                   all_errors, results, test_no, wire, mem, fill, glitches, inflight, rx,
                   trace, cAddr, cWord, cOut>>

Next ==
    \/ Connect
    \/ March_Phase1 \/ March_Read \/ March_Write \/ March_Phase6 \/ March_Return
    \/ Checker_Write \/ Checker_Verify \/ Checker_Return
    \/ Unique_Write \/ Unique_Verify \/ Unique_Return
    \/ Walk_Write \/ Walk_Verify \/ Walk1_Return \/ Walk0_Return
    \/ PrintSummary \/ Close

Spec == InitMarch /\ [][Next]_vars

(***************************************************************************)
(* march_test.main with the exceptions its try blocks can meet.            *)
(***************************************************************************)
\* where the process has ended
Ended == {"done", "exit0", "exit1", "uncaught"}

\* Ctrl-C somewhere in the try block.  The main path has
\* except KeyboardInterrupt: print(...); sys.exit(0); the bit-test path
\* (choice '6') catches SerialException only, so the interrupt ends the process
\* with a traceback.  Neither calls print_summary or uart.close().
Main_Interrupt ==
    /\ prog = "march_test" /\ pc \notin Ended
    /\ pc' = (IF choice = "6" THEN "uncaught" ELSE "exit0")
    /\ UNCHANGED <<prog, dev, stuck, file, test_data, line, printed, choice, start_addr, end_addr, phase, i,
                   sub, data, errors, all_errors, results, test_no, ser, wire, mem,
                   fill, glitches, inflight, rx, trace, cAddr, cWord, cOut>>

\* serial.Serial(), ser.write() or ser.read() raises SerialException:
\* except serial.SerialException: print(...); sys.exit(1) (choice '6': return)
Main_SerialError ==
    /\ prog = "march_test"
    /\ pc \in {"connect", "march", "checker", "unique", "walk1", "walk0"}
    /\ pc' = "exit1"
    /\ UNCHANGED <<prog, dev, stuck, file, test_data, line, printed, choice, start_addr, end_addr, phase, i,
                   sub, data, errors, all_errors, results, test_no, ser, wire, mem,
                   fill, glitches, inflight, rx, trace, cAddr, cWord, cOut>>

NextInt == Next \/ Main_Interrupt \/ Main_SerialError

SpecInt == InitMarch /\ [][NextInt]_vars


(***************************************************************************)
(* march_test.main, custom range, on a device whose answers can be late.   *)
(***************************************************************************)
InitLate ==
    /\ prog = "march_test"
    /\ pc = "connect"
    /\ choice = "5"
    /\ start_addr \in Starts
    /\ end_addr \in {start_addr + n - 1 : n \in 1..MaxLen}
    /\ phase = 1 /\ i = 0 /\ sub = "r" /\ data = 0
    /\ errors = << >> /\ all_errors = << >>
    /\ results = << >> /\ test_no = 0
    /\ ser = "none"
    /\ wire = << >>
    /\ mem = << >>
    /\ fill \in Fills
    /\ glitches = 0
    /\ dev = "late" /\ inflight = << >> /\ rx = << >>
    /\ stuck = NoStuck /\ file = NoFile /\ test_data = << >>
    /\ printed = << >> /\ line = << >>
    /\ trace = << >>
    /\ cAddr = 0 /\ cWord = 0 /\ cOut = << >>

NextLate ==
    \/ Connect
    \/ March_Phase1 \/ March_Read \/ March_Write \/ March_Phase6 \/ March_Return
    \/ Checker_Write \/ Checker_Verify \/ Checker_Return
    \/ Unique_Write \/ Unique_Verify \/ Unique_Return
    \/ PrintSummary \/ Close

SpecLate == InitLate /\ [][NextLate]_vars

(***************************************************************************)
(* The test functions of march_test.py called on their own with an open    *)
(* port: checkerboard_test once, address_uniqueness_test once or twice in  *)
(* sequence, walking_ones_test followed by walking_zeros_test.  The lists  *)
(* they return are collected in results.                                   *)
(***************************************************************************)
\* start addresses tried: 0x00000, 0x0DEAC, 0x0FFFF
CallStarts == {0, 57004, 65535}

FirstPc(c) ==
    CASE c = "checkerboard" -> "checker"
      [] c = "walking" -> "walk1"
      [] OTHER -> "unique"

\* the state at the first call: ranges of 1 .. 2 * MaxLen addresses, 16 for
\* the walking tests; a plain device or one that aliases A with A ^ 0x1
InitCall ==
    /\ prog = "call"
    /\ choice \in {"checkerboard", "unique2", "walking"}
    /\ pc = FirstPc(choice)
    /\ start_addr \in CallStarts
    /\ end_addr \in (IF choice = "walking"
                     THEN {start_addr + WALK_COUNT - 1}
                     ELSE {start_addr + n - 1 : n \in 1..(2 * MaxLen)})
    /\ phase = 1 /\ i = 0 /\ sub = "r" /\ data = 0
    /\ errors = << >> /\ all_errors = << >>
    /\ results = << >> /\ test_no = 1
    /\ ser = "open"
    /\ wire = << >>
    /\ mem = << >>
    /\ fill \in Fills
    /\ glitches = 0
    /\ dev \in {"plain", "xor1"} /\ inflight = << >> /\ rx = << >>
    /\ stuck = NoStuck /\ file = NoFile /\ test_data = << >>
    /\ printed = << >> /\ line = << >>
    /\ trace = << >>
    /\ cAddr = 0 /\ cWord = 0 /\ cOut = << >>

\* return len(errors) == 0, errors; then the next call, if there is one:
\* address_uniqueness_test again over the same range ("unique2"), or
\* walking_zeros_test after walking_ones_test
Call_Return ==
    /\ prog = "call"
    /\ pc \in {"checker_ret", "unique_ret", "walk1_ret", "walk0_ret"}
    /\ results' = Append(results, errors)
    /\ errors' = << >>
    /\ test_no' = test_no + 1
    /\ pc' = (IF pc = "walk1_ret" THEN "walk0"
              ELSE IF choice = "unique2" /\ test_no = 1 THEN "unique"
              ELSE "returned")
    /\ phase' = 1 /\ i' = 0
    /\ UNCHANGED <<prog, dev, stuck, file, test_data, line, printed, choice, start_addr, end_addr, sub, data,
                   all_errors, ser, wire, mem, fill, glitches, inflight, rx, trace,
                   cAddr, cWord, cOut>>

NextCall ==
    \/ Checker_Write \/ Checker_Verify
    \/ Unique_Write \/ Unique_Verify
    \/ Walk_Write \/ Walk_Verify
    \/ Call_Return

SpecCall == InitCall /\ [][NextCall]_vars

\* address_uniqueness_test(uart, 0x00000, 0x10000) on a device whose decoder
\* ignores address bits 16 and 17
InitFold ==
    /\ prog = "call"
    /\ choice = "unique"
    /\ pc = "unique"
    /\ start_addr = 0
    /\ end_addr = WORDS
    /\ phase = 1 /\ i = 0 /\ sub = "r" /\ data = 0
    /\ errors = << >> /\ all_errors = << >>
    /\ results = << >> /\ test_no = 1
    /\ ser = "open"
    /\ wire = << >>
    /\ mem = << >>
    /\ fill = ALL_ONES
    /\ glitches = 0
    /\ dev = "fold16" /\ inflight = << >> /\ rx = << >>
    /\ stuck = NoStuck /\ file = NoFile /\ test_data = << >>
    /\ printed = << >> /\ line = << >>
    /\ trace = << >>
    /\ cAddr = 0 /\ cWord = 0 /\ cOut = << >>

NextFold == Unique_Write \/ Unique_Verify \/ Call_Return

SpecFold == InitFold /\ [][NextFold]_vars

(***************************************************************************)
(* march_test.main against a memory that is ideal except for one stuck bit *)
(***************************************************************************)
\* the word width
BITS == 16

\* the cells whose bit may be stuck: the cells the session tests
StuckCells ==
    IF choice = "5"
    THEN {a \in start_addr..end_addr : a <= FULL_END}
    ELSE (0..(WALK_COUNT - 1)) \cup (WALK0_START..(WALK0_START + WALK_COUNT - 1))

InitStuck ==
    /\ prog = "march_test"
    /\ pc = "connect"
    /\ choice \in {"5", "6"}
    /\ start_addr \in (IF choice = "5" THEN Starts ELSE {0})
    /\ end_addr \in (IF choice = "5"
                     THEN {start_addr + n - 1 : n \in 1..MaxLen}
                     ELSE {WALK_COUNT - 1})
    /\ phase = 1 /\ i = 0 /\ sub = "r" /\ data = 0
    /\ errors = << >> /\ all_errors = << >>
    /\ results = << >> /\ test_no = 0
    /\ ser = "none"
    /\ wire = << >>
    /\ mem = << >>
    /\ fill \in Fills
    /\ glitches = 0
    /\ dev = "stuck" /\ inflight = << >> /\ rx = << >>
    /\ stuck \in [addr : StuckCells, bit : 0..(BITS - 1), val : {0, 1}]
    /\ file = NoFile /\ test_data = << >>
    /\ printed = << >> /\ line = << >>
    /\ trace = << >>
    /\ cAddr = 0 /\ cWord = 0 /\ cOut = << >>

SpecStuck == InitStuck /\ [][Next]_vars

(***************************************************************************)
(* main.py: run_test and main                                              *)
(***************************************************************************)
\* start_addr of the four run_test calls: 0x00100, 0x01000, 0x10000, 0x20000
RtStarts == <<256, 4096, 65536, 131072>>

\* test_data[k][1] for pattern "aa55"
RtData(k) == IF k % 2 = 0 THEN PAT_AA55 ELSE PAT_55AA

InitMain ==
    /\ prog = "main"
    /\ pc = "connect"
    /\ choice = "-"
    /\ start_addr = 0 /\ end_addr = 0
    /\ phase = 1 /\ i = 0 /\ sub = "r" /\ data = 0
    /\ errors = << >> /\ all_errors = << >>
    /\ results = << >> /\ test_no = 0
    /\ ser = "none"
    /\ wire = << >>
    /\ mem = << >>
    /\ fill \in Fills
    /\ glitches = 0
    /\ dev = "plain" /\ inflight = << >> /\ rx = << >>
    /\ stuck = NoStuck /\ file = NoFile /\ test_data = << >>
    /\ printed = << >> /\ line = << >>
    /\ trace = << >>
    /\ cAddr = 0 /\ cWord = 0 /\ cOut = << >>

\* uart = MRAMUART(PORT, BAUDRATE); run_test(uart, start_addr=0x00100, ...)
Rt_Connect ==
    /\ prog = "main" /\ pc = "connect"
    /\ ser' = "open"
    /\ test_no' = 1
    /\ start_addr' = RtStarts[1] /\ end_addr' = RtStarts[1] + RT_COUNT - 1
    /\ results' = << >>
    /\ pc' = "rt_write" /\ i' = 0
    /\ UNCHANGED <<prog, dev, stuck, file, test_data, line, printed, choice, phase, sub, data, errors, all_errors,
                   wire, mem, fill, glitches, inflight, rx, trace, cAddr, cWord, cOut>>

\* Phase 1: for addr, data in test_data: uart.write_mram(addr, data)
Rt_Write ==
    /\ pc = "rt_write"
    /\ WriteMram(start_addr + i, RtData(i), "run_test")
    /\ IF i + 1 < RT_COUNT
       THEN i' = i + 1 /\ pc' = pc
       ELSE i' = 0 /\ pc' = "rt_read"
    /\ UNCHANGED <<prog, dev, stuck, file, test_data, line, printed, choice, start_addr, end_addr, phase, sub, data, errors,
                   all_errors, results, test_no, ser, cAddr, cWord, cOut>>

\* Phase 2: actual = uart.read_mram(addr); results.append(...); the print of
\* f"0x{actual:04X}" raises TypeError when actual is None, which nothing catches
Rt_Read ==
    /\ pc = "rt_read"
    /\ ReadMramMain(start_addr + i, RtData(i), "run_test")
    /\ results' = Append(results, <<start_addr + i, RtData(i), data'>>)
    /\ IF data' = None
       THEN pc' = "crashed" /\ i' = i
       ELSE IF i + 1 < RT_COUNT
            THEN i' = i + 1 /\ pc' = pc
            ELSE i' = 0 /\ pc' = "rt_results"
    /\ UNCHANGED <<prog, dev, stuck, file, test_data, line, printed, choice, start_addr, end_addr, phase, sub, errors,
                   all_errors, test_no, ser, cAddr, cWord, cOut>>

\* correct = sum(1 for _, exp, act in results if exp == act)
RtCorrect(res) == Cardinality({k \in 1..Len(res) : res[k][2] = res[k][3]})

\* the RESULTS block; run_test returns; main goes on to input() or uart.close()
Rt_Results ==
    /\ pc = "rt_results"
    /\ pc' = (IF test_no < Len(RtStarts) THEN "rt_input" ELSE "close")
    /\ UNCHANGED <<prog, dev, stuck, file, test_data, line, printed, choice, start_addr, end_addr, phase, i, sub, data, errors,
                   all_errors, results, test_no, ser, wire, mem, fill, glitches, inflight, rx,
                   trace, cAddr, cWord, cOut>>

\* input("Press ENTER to run next test..."); the next run_test call
Rt_Input ==
    /\ pc = "rt_input"
    /\ test_no' = test_no + 1
    /\ start_addr' = RtStarts[test_no + 1]
    /\ end_addr' = RtStarts[test_no + 1] + RT_COUNT - 1
    /\ results' = << >>
    /\ pc' = "rt_write" /\ i' = 0
    /\ UNCHANGED <<prog, dev, stuck, file, test_data, line, printed, choice, phase, sub, data, errors, all_errors,
                   ser, wire, mem, fill, glitches, inflight, rx, trace, cAddr, cWord, cOut>>

\* uart.close()
Rt_Close ==
    /\ prog = "main" /\ pc = "close"
    /\ ser' = "closed"
    /\ pc' = "done"
    /\ UNCHANGED <<prog, dev, stuck, file, test_data, line, printed, choice, start_addr, end_addr, phase, i, sub, data, errors,
                   all_errors, results, test_no, wire, mem, fill, glitches, inflight, rx,
                   trace, cAddr, cWord, cOut>>

NextMain ==
    \/ Rt_Connect \/ Rt_Write \/ Rt_Read \/ Rt_Results \/ Rt_Input \/ Rt_Close

SpecMain == InitMain /\ [][NextMain]_vars

(***************************************************************************)
(* The codec on its own: inputs drawn from sample sets, one call per run.  *)
(***************************************************************************)
ByteSamples == {0, 1, 85, 128, 170, 173, 222, 255}

\* addresses in [0, 0x3FFFF]
AddrSamples == {h * 65536 + m * 256 + l : h \in 0..3, m \in ByteSamples, l \in ByteSamples}

\* words in [0, 0xFFFF]
WordSamples == {h * 256 + l : h \in ByteSamples, l \in ByteSamples}

InitCodec ==
    /\ prog = "codec"
    /\ pc = "codec"
    /\ choice = "-"
    /\ start_addr = 0 /\ end_addr = 0
    /\ phase = 1 /\ i = 0 /\ sub = "r" /\ data = 0
    /\ errors = << >> /\ all_errors = << >>
    /\ results = << >> /\ test_no = 0
    /\ ser = "none"
    /\ wire = << >>
    /\ mem = << >>
    /\ fill = 0
    /\ glitches = 0
    /\ dev = "plain" /\ inflight = << >> /\ rx = << >>
    /\ stuck = NoStuck /\ file = NoFile /\ test_data = << >>
    /\ printed = << >> /\ line = << >>
    /\ trace = << >>
    /\ cAddr \in AddrSamples
    /\ cWord \in WordSamples
    /\ cOut = << >>

CodecFrame ==
    UNCHANGED <<prog, dev, stuck, file, test_data, line, printed, choice, start_addr, end_addr, phase, i, sub, data, errors,
                all_errors, results, test_no, ser, wire, mem, fill, glitches, inflight, rx,
                trace, cAddr, cWord>>

\* cmd of write_mram(cAddr, cWord)
Codec_Write ==
    /\ pc = "codec"
    /\ cOut' = EncodeWrite(cAddr, cWord)
    /\ pc' = "codec_w"
    /\ CodecFrame

\* cmd of read_mram(cAddr)
Codec_Read ==
    /\ pc = "codec"
    /\ cOut' = EncodeRead(cAddr)
    /\ pc' = "codec_r"
    /\ CodecFrame

\* the data bytes of a write command handed to the decoding of read_mram
Codec_RoundTrip ==
    /\ pc = "codec"
    /\ cOut' = <<DecodeResponse(DataBytes(cWord))>>
    /\ pc' = "codec_rt"
    /\ CodecFrame

NextCodec == Codec_Write \/ Codec_Read \/ Codec_RoundTrip

SpecCodec == InitCodec /\ [][NextCodec]_vars


(***************************************************************************)
(* mram_test.py: the interactive terminal.  An input line is its command   *)
(* word and its other words, each of these a sequence of characters.       *)
(***************************************************************************)
\* most input lines of one terminal session
MaxCmds == 2

HexLower == <<"0", "1", "2", "3", "4", "5", "6", "7", "8", "9",
              "a", "b", "c", "d", "e", "f">>

HexUpper == <<"0", "1", "2", "3", "4", "5", "6", "7", "8", "9",
              "A", "B", "C", "D", "E", "F">>

\* the value of a digit of int(s, base); 16 for any other character
DigitVal(c) ==
    IF \E k \in 1..16 : HexLower[k] = c \/ HexUpper[k] = c
    THEN (CHOOSE k \in 1..16 : HexLower[k] = c \/ HexUpper[k] = c) - 1
    ELSE 16

RECURSIVE DigitsVal(_, _)
DigitsVal(ds, base) ==
    IF ds = << >> THEN 0
    ELSE DigitsVal(SubSeq(ds, 1, Len(ds) - 1), base) * base + DigitVal(ds[Len(ds)])

\* s.startswith('0x') or s.startswith('0X')
HasPrefix0x(s) == Len(s) >= 2 /\ s[1] = "0" /\ s[2] \in {"x", "X"}

\* int(s, base): an optional sign, for base 16 an optional 0x, then digits of
\* the base; ok is FALSE where Python raises ValueError
IntOf(s, base) ==
    LET signed == s # << >> /\ s[1] \in {"-", "+"}
        u  == IF signed THEN Tail(s) ELSE s
        ds == IF base = 16 /\ HasPrefix0x(u) THEN SubSeq(u, 3, Len(u)) ELSE u
        ok == ds # << >> /\ \A k \in 1..Len(ds) : DigitVal(ds[k]) < base
    IN  [ok |-> ok,
         val |-> IF ~ok THEN 0
                 ELSE IF signed /\ s[1] = "-" THEN 0 - DigitsVal(ds, base)
                 ELSE DigitsVal(ds, base)]

\* MRAMTerminal.parse_number
ParseNumber(s) ==
    IF HasPrefix0x(s) THEN IntOf(s, 16)
    ELSE IF IntOf(s, 16).ok THEN IntOf(s, 16) ELSE IntOf(s, 10)

\* the address check admits any address that is not negative
AddrInRangeNoUpper(addr) == addr >= 0

\* not (addr < 0 or addr > 0x3FFFF)
AddrInRange(addr) == ~(addr < 0 \/ addr > FULL_END)

\* not (data < 0 or data > 0xFFFF)
DataInRange(d) == ~(d < 0 \/ d > ALL_ONES)

\* parts[0].lower(), on the command words tried
Lower(w) ==
    CASE w = "W" -> "w" [] w = "WRITE" -> "write" [] w = "R" -> "r"
      [] w = "READ" -> "read" [] w = "Q" -> "q" [] OTHER -> w

\* the words tried as numbers: 0x100, 3FFFF, 40000, FFFF, -1, zz
NumWords ==
    { <<"0", "x", "1", "0", "0">>, <<"3", "F", "F", "F", "F">>,
      <<"4", "0", "0", "0", "0">>, <<"F", "F", "F", "F">>,
      <<"-", "1">>, <<"z", "z">> }

\* after a write word: no, one or two numbers, or three
WriteArgs ==
    {<< >>} \cup {<<a>> : a \in NumWords}
            \cup {<<a, b>> : a \in NumWords, b \in NumWords}
            \cup {<<<<"F", "F", "F", "F">>, <<"F", "F", "F", "F">>, <<"F", "F", "F", "F">>>>}

\* after a read word: no or one number, or two
ReadArgs ==
    {<< >>} \cup {<<a>> : a \in NumWords}
            \cup {<<a, <<"F", "F", "F", "F">>>> : a \in NumWords}

\* the lines typed
TermLines ==
    {[cmd |-> c, args |-> << >>] : c \in {"", "help", "q", "bogus"}}
        \cup {[cmd |-> c, args |-> a] : c \in {"w", "WRITE"}, a \in WriteArgs}
        \cup {[cmd |-> c, args |-> a] : c \in {"r", "read"}, a \in ReadArgs}

InitTerm ==
    /\ prog = "mram_test"
    /\ pc = "connect"
    /\ choice = "-"
    /\ start_addr = 0 /\ end_addr = 0
    /\ phase = 1 /\ i = 0 /\ sub = "r" /\ data = 0
    /\ errors = << >> /\ all_errors = << >>
    /\ results = << >> /\ test_no = 0
    /\ ser = "none"
    /\ wire = << >>
    /\ mem = << >>
    /\ fill = 0
    /\ glitches = 0
    /\ dev = "plain" /\ inflight = << >> /\ rx = << >>
    /\ stuck = NoStuck /\ file = NoFile /\ test_data = << >>
    /\ printed = << >> /\ line = [cmd |-> "", args |-> << >>]
    /\ trace = << >>
    /\ cAddr = 0 /\ cWord = 0 /\ cOut = << >>

\* what no step of the terminal changes
TermFrame ==
    UNCHANGED <<prog, choice, start_addr, end_addr, phase, i, sub, errors,
                all_errors, results, dev, stuck, file, test_data, printed,
                cAddr, cWord, cOut>>

\* the line sends nothing
TermNoCommand ==
    UNCHANGED <<data, wire, mem, fill, glitches, inflight, rx, trace>>

\* terminal = MRAMTerminal(PORT, BAUDRATE): the port opens
Term_Connect ==
    /\ prog = "mram_test" /\ pc = "connect"
    /\ ser' = "open"
    /\ pc' = "prompt"
    /\ UNCHANGED <<line, test_no>>
    /\ TermNoCommand /\ TermFrame

\* serial.Serial raises SerialException: sys.exit(1) inside __init__
Term_ConnectFail ==
    /\ prog = "mram_test" /\ pc = "connect"
    /\ pc' = "exit1"
    /\ UNCHANGED <<ser, line, test_no>>
    /\ TermNoCommand /\ TermFrame

\* self.read_mram(addr) of mram_test.py; the value is printed, not used
ReadMramTerm(addr) ==
    \E resp \in DeviceResponses(mem, fill, EncodeRead(addr), glitches) :
        /\ Exchange(addr, 0, "terminal", resp)
        /\ data' = ReadResultMain(Bytes(Window(resp)))

\* elif command in ['w', 'write']
TermWrite(l) ==
    IF Len(l.args) + 1 # 3
    THEN TermNoCommand
    ELSE LET addr == ParseNumber(l.args[1])
             d    == ParseNumber(l.args[2])
         IN  IF ~addr.ok \/ ~d.ok
             THEN TermNoCommand
             ELSE IF ~AddrInRange(addr.val)
                  THEN TermNoCommand
                  ELSE IF ~DataInRange(d.val)
                       THEN TermNoCommand
                       ELSE /\ WriteMram(addr.val, d.val, "terminal")
                            /\ UNCHANGED data

\* elif command in ['r', 'read']
TermRead(l) ==
    IF Len(l.args) + 1 # 2
    THEN TermNoCommand
    ELSE LET addr == ParseNumber(l.args[1])
         IN  IF ~addr.ok
             THEN TermNoCommand
             ELSE IF ~AddrInRange(addr.val)
                  THEN TermNoCommand
                  ELSE ReadMramTerm(addr.val)

\* one turn of the while loop: input("mram> ") and the handling of the line
Term_Line ==
    /\ pc = "prompt" /\ test_no < MaxCmds
    /\ \E l \in TermLines :
        /\ line' = l
        /\ test_no' = test_no + 1
        /\ IF l.cmd = ""
           THEN TermNoCommand /\ pc' = pc
           ELSE IF Lower(l.cmd) \in {"quit", "exit", "q"}
                THEN TermNoCommand /\ pc' = "finally"
                ELSE IF Lower(l.cmd) \in {"help", "h", "?"}
                     THEN TermNoCommand /\ pc' = pc
                     ELSE IF Lower(l.cmd) \in {"w", "write"}
                          THEN TermWrite(l) /\ pc' = pc
                          ELSE IF Lower(l.cmd) \in {"r", "read"}
                               THEN TermRead(l) /\ pc' = pc
                               ELSE TermNoCommand /\ pc' = pc
    /\ UNCHANGED ser
    /\ TermFrame

\* except KeyboardInterrupt: continue
Term_Interrupt ==
    /\ pc = "prompt" /\ test_no < MaxCmds
    /\ line' = [cmd |-> "^C", args |-> << >>]
    /\ test_no' = test_no + 1
    /\ UNCHANGED <<pc, ser>>
    /\ TermNoCommand /\ TermFrame

\* finally: terminal.close(): closes the port if it is open
Term_Close ==
    /\ prog = "mram_test" /\ pc = "finally"
    /\ ser' = (IF ser = "open" THEN "closed" ELSE ser)
    /\ pc' = "done"
    /\ UNCHANGED <<line, test_no>>
    /\ TermNoCommand /\ TermFrame

NextTerm ==
    \/ Term_Connect \/ Term_ConnectFail \/ Term_Line \/ Term_Interrupt \/ Term_Close

SpecTerm == InitTerm /\ [][NextTerm]_vars


(***************************************************************************)
(* non_volatility_test.py: write_test_data, the power cycle, and            *)
(* verify_test_data.  The persisted vector is a text file, one line per     *)
(* entry: the address as 5 and the word as 4 upper-case hex digits, then    *)
(* the description.                                                         *)
(***************************************************************************)
\* test_data of write_test_data: 0x00010 <- 0xBAEF, ... , 0x02001 <- 0x3002
TestData ==
    <<<<16, 47855, "Magic pattern 1">>,
      <<17, 48877, "Magic pattern 2">>,
      <<18, 43774, "Magic pattern 3">>,
      <<19, 51902, "Magic pattern 4">>,
      <<256, 16948, "Sequential 1">>,
      <<257, 9848, "Sequential 2">>,
      <<258, 6844, "Sequential 3">>,
      <<259, 52976, "Sequential 4">>,
      <<512, 64170, "Alternating A">>,
      <<513, 1365, "Alternating 5">>,
      <<514, 61439, "All ones">>,
      <<515, 8192, "All zeros">>,
      <<4096, 16639, "Byte pattern 1">>,
      <<4097, 36608, "Byte pattern 2">>,
      <<8192, 16385, "Edge bits 1">>,
      <<8193, 12290, "Edge bits 2">>>>

\* the address of warmup's dummy write, 0x3FFFF
WARMUP_WRITE == 262143

\* the addresses of warmup's reads: 0x3FFFF, 0x00100, 0x01000
WarmupReads == <<262143, 256, 4096>>

RECURSIVE HexDigits(_)
HexDigits(n) ==
    IF n < 16 THEN <<HexUpper[n + 1]>>
    ELSE Append(HexDigits(n \div 16), HexUpper[(n % 16) + 1])

RECURSIVE ZeroPad(_, _)
ZeroPad(ds, w) == IF Len(ds) >= w THEN ds ELSE ZeroPad(<<"0">> \o ds, w)

\* f"{n:0wX}"
FormatHex(n, w) == ZeroPad(HexDigits(n), w)

\* f"{addr:05X} {data:04X} {desc}\n", as the words split(maxsplit=2) gives
FileLine(e) == <<FormatHex(e[1], 5), FormatHex(e[2], 4), e[3]>>

\* the file write_test_data leaves
Persisted == [exists |-> TRUE,
              entries |-> [k \in 1..Len(TestData) |-> FileLine(TestData[k])]]

\* (int(parts[0], 16), int(parts[1], 16), parts[2]) of every line of the file
LoadFile(f) ==
    [k \in 1..Len(f.entries) |->
        <<IntOf(f.entries[k][1], 16).val, IntOf(f.entries[k][2], 16).val,
          f.entries[k][3]>>]

\* the test file is taken to be there
FileExistsAlways(f) == TRUE

\* os.path.exists('/tmp/mram_nonvol_test.txt')
FileExists(f) == f.exists

\* device: the cells as an earlier write phase left them
VectorMem ==
    [a \in {TestData[k][1] : k \in 1..Len(TestData)} |->
        TestData[CHOOSE k \in 1..Len(TestData) : TestData[k][1] = a][2]]

\* actual = uart.read_mram(addr) of non_volatility_test.py
ReadMramNonVol(addr, expected, tag) ==
    \E resp \in DeviceResponses(mem, fill, EncodeRead(addr), glitches) :
        /\ Exchange(addr, expected, tag, resp)
        /\ data' = ReadResultMain(Bytes(Window(resp)))

InitNonVol ==
    /\ prog = "nonvol"
    /\ pc = "connect"
    /\ choice \in {"1", "2", "3", "4"}
    /\ start_addr = 0 /\ end_addr = 0
    /\ phase = 1 /\ i = 0 /\ sub = "r" /\ data = 0
    /\ errors = 0 /\ all_errors = << >>
    /\ results = << >> /\ test_no = 0
    /\ ser = "none"
    /\ wire = << >>
    /\ file \in {NoFile, Persisted}
    /\ mem \in (IF file.exists THEN {<< >>, VectorMem} ELSE {<< >>})
    /\ fill \in Fills
    /\ glitches = 0
    /\ dev = "plain" /\ inflight = << >> /\ rx = << >>
    /\ stuck = NoStuck /\ test_data = << >>
    /\ printed = << >> /\ line = << >>
    /\ trace = << >>
    /\ cAddr = 0 /\ cWord = 0 /\ cOut = << >>

\* what no step of the script changes
NonVolFrame ==
    UNCHANGED <<prog, choice, start_addr, end_addr, phase, sub, all_errors, test_no,
                dev, stuck, printed, line, cAddr, cWord, cOut>>

\* uart = MRAMUART(PORT, BAUDRATE), then the branch of the choice
NV_Connect ==
    /\ prog = "nonvol" /\ pc = "connect"
    /\ ser' = "open"
    /\ rx' = ResetInputBuffer(rx)
    /\ pc' = (CASE choice \in {"1", "3"} -> "write"
                [] choice = "2" -> "verify"
                [] OTHER -> "close")
    /\ NonVolFrame
    /\ UNCHANGED <<i, data, errors, results, wire, mem, fill, glitches, inflight,
                   trace, file, test_data>>

\* write_test_data: for addr, data, description in test_data: write_mram
NV_Write ==
    /\ prog = "nonvol" /\ pc = "write"
    /\ WriteMram(TestData[i + 1][1], TestData[i + 1][2], "write")
    /\ IF i + 1 < Len(TestData)
       THEN i' = i + 1 /\ UNCHANGED pc
       ELSE i' = 0 /\ pc' = "save"
    /\ NonVolFrame
    /\ UNCHANGED <<data, errors, results, ser, file, test_data>>

\* write_test_data: the vector is saved to the file; the function returns
NV_Save ==
    /\ prog = "nonvol" /\ pc = "save"
    /\ file' = Persisted
    /\ pc' = (IF choice = "1" THEN "close" ELSE "power")
    /\ NonVolFrame
    /\ UNCHANGED <<i, data, errors, results, ser, wire, mem, fill, glitches, inflight,
                   rx, trace, test_data>>

\* choice 3: input(...), uart.close(), a new MRAMUART; the cells have kept
\* their words through the power cycle, or have lost them
NV_PowerCycle ==
    /\ prog = "nonvol" /\ pc = "power"
    /\ mem' \in {mem, << >>}
    /\ ser' = "open"
    /\ rx' = ResetInputBuffer(rx)
    /\ pc' = "verify"
    /\ NonVolFrame
    /\ UNCHANGED <<i, data, errors, results, wire, fill, glitches, inflight,
                   trace, file, test_data>>

\* verify_test_data: the file is not there, return False
NV_VerifyMissing ==
    /\ prog = "nonvol" /\ pc = "verify"
    /\ ~FileExists(file)
    /\ results' = Append(results, FALSE)
    /\ pc' = "close"
    /\ NonVolFrame
    /\ UNCHANGED <<i, data, errors, ser, wire, mem, fill, glitches, inflight, rx,
                   trace, file, test_data>>

\* verify_test_data: uart.warmup(), its dummy write
NV_WarmupWrite ==
    /\ prog = "nonvol" /\ pc = "verify"
    /\ FileExists(file)
    /\ WriteMram(WARMUP_WRITE, 0, "warmup")
    /\ pc' = "warmup" /\ i' = 0
    /\ NonVolFrame
    /\ UNCHANGED <<data, errors, results, ser, file, test_data>>

\* warmup: for addr in [0x3FFFF, 0x00100, 0x01000]: _ = self.read_mram(addr)
NV_WarmupRead ==
    /\ prog = "nonvol" /\ pc = "warmup" /\ i < Len(WarmupReads)
    /\ ReadMramNonVol(WarmupReads[i + 1], None, "warmup")
    /\ i' = i + 1
    /\ NonVolFrame
    /\ UNCHANGED <<pc, errors, results, ser, file, test_data>>

\* warmup: the buffers are cleared; verify_test_data loads the file
NV_Load ==
    /\ prog = "nonvol" /\ pc = "warmup" /\ i = Len(WarmupReads)
    /\ rx' = ResetInputBuffer(rx)
    /\ test_data' = LoadFile(file)
    /\ errors' = 0 /\ i' = 0
    /\ IF LoadFile(file) = << >>
       THEN results' = Append(results, TRUE) /\ pc' = "close"
       ELSE pc' = "compare" /\ UNCHANGED results
    /\ NonVolFrame
    /\ UNCHANGED <<data, ser, wire, mem, fill, glitches, inflight, trace, file>>

\* verify_test_data: one entry is read and compared; after the last one the
\* function returns errors == 0
NV_Compare ==
    /\ prog = "nonvol" /\ pc = "compare"
    /\ ReadMramNonVol(test_data[i + 1][1], test_data[i + 1][2], "verify")
    /\ errors' = errors + (IF data' = None \/ data' # test_data[i + 1][2] THEN 1 ELSE 0)
    /\ IF i + 1 < Len(test_data)
       THEN i' = i + 1 /\ UNCHANGED <<pc, results>>
       ELSE i' = 0 /\ pc' = "close" /\ results' = Append(results, errors' = 0)
    /\ NonVolFrame
    /\ UNCHANGED <<ser, file, test_data>>

\* uart.close()
NV_Close ==
    /\ prog = "nonvol" /\ pc = "close"
    /\ ser' = "closed"
    /\ pc' = "done"
    /\ NonVolFrame
    /\ UNCHANGED <<i, data, errors, results, wire, mem, fill, glitches, inflight, rx,
                   trace, file, test_data>>

NextNonVol ==
    \/ NV_Connect
    \/ NV_Write \/ NV_Save \/ NV_PowerCycle
    \/ NV_VerifyMissing \/ NV_WarmupWrite \/ NV_WarmupRead \/ NV_Load \/ NV_Compare
    \/ NV_Close

SpecNonVol == InitNonVol /\ [][NextNonVol]_vars

(***************************************************************************)
(* Vocabulary of the properties.                                           *)
(***************************************************************************)
\* every fault record of the session so far, in the order recorded
Log == all_errors \o errors

PhaseName(p) ==
    CASE p = 1 -> "Phase1" [] p = 2 -> "Phase2" [] p = 3 -> "Phase3"
      [] p = 4 -> "Phase4" [] p = 5 -> "Phase5" [] p = 6 -> "Phase6"

MarchTags == {PhaseName(p) : p \in 1..6}

IsMarchEntry(e) == e.tag \in MarchTags

\* the commands March C has issued so far, in order
MarchLog == SelectSeq(trace, IsMarchEntry)

\* the commands of phase p, in order
InPhase(p) == LET Is(e) == e.tag = PhaseName(p) IN SelectSeq(trace, Is)

Range == start_addr..end_addr

MarchOver == pc \notin {"connect", "march"}

IsRead(e) == e.op = "R"

Reads == SelectSeq(trace, IsRead)

\* the word the device answered with, for a response of 2 bytes
RespWord(e) == e.resp[1] * 256 + e.resp[2]

IsPrefix(a, b) == Len(a) <= Len(b) /\ \A k \in 1..Len(a) : a[k] = b[k]

Count(op, tags) ==
    Cardinality({k \in 1..Len(trace) : trace[k].op = op /\ trace[k].tag \in tags})

(***************************************************************************)
(* C1: March C against an ideal memory (every read so far answered in time *)
(* with the word last written to the address, or the cell's initial        *)
(* content) records no fault, over every range tried.                      *)
(***************************************************************************)
C1_MarchIdealNoFaults ==
    (prog = "march_test" /\ pc \in {"march", "march_ret"} /\ glitches = 0)
        => errors = << >>

C1_Witness ==
    /\ prog = "march_test" /\ pc = "march_ret" /\ glitches = 0
    /\ end_addr > start_addr /\ fill = ALL_ONES
    /\ Len(trace) = 10 * Total
    /\ errors = << >>

(***************************************************************************)
(* C2: the commands of March C are those of phases 1..6 in that order, a   *)
(* phase starts only when the one before has visited every address of the  *)
(* range exactly once; phase 1 writes 0x0000, phases 2 and 4 read expecting *)
(* 0x0000 then write 0xFFFF, phases 3 and 5 read expecting 0xFFFF then     *)
(* write 0x0000, phase 6 reads expecting 0x0000; in phases 2..5 reads and  *)
(* writes alternate, each write going to the address just read.            *)
(***************************************************************************)
PhaseShape(p) ==
    LET es == InPhase(p) IN
    \A k \in 1..Len(es) :
        /\ es[k].addr \in Range
        /\ IF p = 1 THEN es[k].op = "W" /\ es[k].val = 0
           ELSE IF p = 6 THEN es[k].op = "R" /\ es[k].val = 0
           ELSE IF k % 2 = 1
                THEN /\ es[k].op = "R"
                     /\ es[k].val = (IF p \in {2, 4} THEN 0 ELSE ALL_ONES)
                ELSE /\ es[k].op = "W"
                     /\ es[k].val = (IF p \in {2, 4} THEN ALL_ONES ELSE 0)
                     /\ es[k].addr = es[k - 1].addr

PhaseNoRevisit(p) ==
    LET es == InPhase(p) IN
    \A j, k \in 1..Len(es) :
        (j < k /\ es[j].op = es[k].op) => es[j].addr # es[k].addr

PhaseDone(p) ==
    LET es == InPhase(p) IN
    /\ {es[k].addr : k \in 1..Len(es)} = Range
    /\ Len(es) = (IF p \in {1, 6} THEN 1 ELSE 2) * Cardinality(Range)

C2_MarchPhases ==
    (prog = "march_test" /\ choice = "5") =>
        /\ MarchLog = InPhase(1) \o InPhase(2) \o InPhase(3)
                        \o InPhase(4) \o InPhase(5) \o InPhase(6)
        /\ \A p \in 1..6 : PhaseShape(p) /\ PhaseNoRevisit(p)
        /\ \A p \in 1..5 : InPhase(p + 1) # << >> => PhaseDone(p)
        /\ MarchOver => PhaseDone(6)

C2_Witness ==
    /\ prog = "march_test" /\ pc = "march_ret"
    /\ end_addr > start_addr
    /\ Len(InPhase(3)) = 2 * Total /\ Len(InPhase(6)) = Total

(***************************************************************************)
(* C3: phases 4 and 5 of March C visit end, end-1, ..., start and phases   *)
(* 1, 2, 3 and 6 visit start, start+1, ..., end.                           *)
(***************************************************************************)
\* the addresses phase p has visited, in order
Visited(p) ==
    LET First(e) == e.op = (IF p = 1 THEN "W" ELSE "R")
        es == SelectSeq(InPhase(p), First)
    IN [k \in 1..Len(es) |-> es[k].addr]

C3_MarchDirections ==
    (prog = "march_test" /\ choice = "5") =>
        \A p \in 1..6 :
            LET v == Visited(p) IN
            /\ \A k \in 1..Len(v) :
                  IF p \in {4, 5}
                  THEN v[k] = (IF k = 1 THEN end_addr ELSE v[k - 1] - 1)
                  ELSE v[k] = (IF k = 1 THEN start_addr ELSE v[k - 1] + 1)
            /\ (IF p = 6 THEN MarchOver ELSE InPhase(p + 1) # << >>) =>
                  (v # << >> /\ v[Len(v)] = (IF p \in {4, 5} THEN start_addr ELSE end_addr))

C3_Witness ==
    /\ prog = "march_test" /\ pc = "march_ret"
    /\ end_addr > start_addr
    /\ Visited(4) = <<end_addr, start_addr>>
    /\ Visited(3) = <<start_addr, end_addr>>


(***************************************************************************)
(* C4: a read that times out (fewer than 2 bytes in the window) is never   *)
(* counted as a match: it always yields a fault record for that address,   *)
(* whatever the expected value, 0xDEAD included.  (The claim also wants    *)
(* the record's observed outcome to be no 16-bit word; the part stated     *)
(* here is the weaker one.)                                                *)
(***************************************************************************)
C4_TimeoutIsFault ==
    (/\ prog = "march_test"
     /\ trace # << >>
     /\ trace[Len(trace)].op = "R"
     /\ IsTimeout(trace[Len(trace)].resp))
    => /\ Log # << >>
       /\ LET r == Log[Len(Log)]
              e == trace[Len(trace)]
          IN r[1] = e.addr /\ r[2] = e.tag /\ r[3] = e.val

(***************************************************************************)
(* C5: in run_test a read that times out is recorded as one failure with   *)
(* the expected value kept, the run does not die of it, and the summary is *)
(* reached with every address of the test vector read.                     *)
(***************************************************************************)
C5_TimeoutNonFatal ==
    prog = "main" =>
        /\ pc # "crashed"
        /\ (trace # << >> /\ trace[Len(trace)].op = "R"
                /\ IsTimeout(trace[Len(trace)].resp)) =>
              (/\ results # << >>
               /\ results[Len(results)]
                    = <<trace[Len(trace)].addr, trace[Len(trace)].val, None>>)
        /\ pc = "rt_results" =>
              (/\ Len(results) = RT_COUNT
               /\ RtCorrect(results) = RT_COUNT -
                    Cardinality({k \in 1..Len(results) : results[k][3] # results[k][2]}))

(***************************************************************************)
(* C6: whatever the device answers, the commands issued are those of a     *)
(* fixed script of the range alone, no algorithm returns before its script *)
(* is over, and every step either issues the next command of the script or *)
(* moves the session on, so the session ends after a bounded number of     *)
(* steps; March C issues 5N writes and 5N reads, checkerboard 2N and 2N,   *)
(* address uniqueness N and N, each walking test 16 and 16.                *)
(***************************************************************************)
Cmd(e) == IF e.op = "W" THEN <<"W", e.addr, e.val>> ELSE <<"R", e.addr>>

Issued == [k \in 1..Len(trace) |-> Cmd(trace[k])]

Asc(s, n) == [k \in 1..n |-> s + k - 1]

Desc(e, n) == [k \in 1..n |-> e - k + 1]

Const(n, v) == [k \in 1..n |-> v]

WSeq(as, vs) == [k \in 1..Len(as) |-> <<"W", as[k], vs[k]>>]

RSeq(as) == [k \in 1..Len(as) |-> <<"R", as[k]>>]

RWSeq(as, v) ==
    [k \in 1..(2 * Len(as)) |->
        IF k % 2 = 1 THEN <<"R", as[(k + 1) \div 2]>> ELSE <<"W", as[k \div 2], v>>]

MarchScript(s, e) ==
    LET n == e - s + 1
        up == Asc(s, n)
        down == Desc(e, n)
    IN WSeq(up, Const(n, 0)) \o RWSeq(up, ALL_ONES) \o RWSeq(up, 0)
         \o RWSeq(down, ALL_ONES) \o RWSeq(down, 0) \o RSeq(up)

CheckerScript(s, e) ==
    LET n == e - s + 1
        up == Asc(s, n)
        a == [k \in 1..n |-> IF k % 2 = 1 THEN PAT_AAAA ELSE PAT_5555]
        b == [k \in 1..n |-> IF k % 2 = 1 THEN PAT_5555 ELSE PAT_AAAA]
    IN WSeq(up, a) \o RSeq(up) \o WSeq(up, b) \o RSeq(up)

UniqueScript(s, e) ==
    LET n == e - s + 1
        up == Asc(s, n)
    IN WSeq(up, [k \in 1..n |-> up[k] % 65536]) \o RSeq(up)

WalkScript(s, ones) ==
    LET up == Asc(s, 16)
    IN WSeq(up, [k \in 1..16 |-> IF ones THEN 2 ^ (k - 1) ELSE 65535 - 2 ^ (k - 1)])
         \o RSeq(up)

SessionScript ==
    IF choice = "5"
    THEN MarchScript(start_addr, end_addr) \o CheckerScript(start_addr, end_addr)
           \o UniqueScript(start_addr, end_addr)
    ELSE WalkScript(0, TRUE) \o WalkScript(256, FALSE)

\* the algorithms that have returned
Returned(alg) ==
    CASE alg = "march" -> choice = "5" /\ pc \notin {"connect", "march"}
      [] alg = "checker" -> choice = "5" /\ pc \notin {"connect", "march", "march_ret", "checker"}
      [] alg = "unique" -> choice = "5" /\ pc \in {"unique_ret", "summary", "close", "done"}
      [] alg = "walk1" -> choice = "6" /\ pc \notin {"connect", "walk1"}
      [] alg = "walk0" -> choice = "6" /\ pc \in {"walk0_ret", "summary", "close", "done"}

C6_Script ==
    prog = "march_test" =>
        /\ IsPrefix(Issued, SessionScript)
        /\ pc \in {"summary", "close", "done"} => Issued = SessionScript
        /\ Returned("march") =>
              Count("W", MarchTags) = 5 * Total /\ Count("R", MarchTags) = 5 * Total
        /\ Returned("checker") =>
              /\ Count("W", {"Checkerboard", "InvCheckerboard"}) = 2 * Total
              /\ Count("R", {"Checkerboard", "InvCheckerboard"}) = 2 * Total
        /\ Returned("unique") =>
              /\ Count("W", {"AddressUnique"}) = Total
              /\ Count("R", {"AddressUnique"}) = Total
        /\ Returned("walk1") =>
              Count("W", {"Walking1s"}) = 16 /\ Count("R", {"Walking1s"}) = 16
        /\ Returned("walk0") =>
              Count("W", {"Walking0s"}) = 16 /\ Count("R", {"Walking0s"}) = 16

\* how far the session has come
PcRank ==
    CASE pc = "connect" -> 0
      [] pc \in {"march", "walk1"} -> 1
      [] pc \in {"march_ret", "walk1_ret"} -> 2
      [] pc \in {"checker", "walk0"} -> 3
      [] pc \in {"checker_ret", "walk0_ret"} -> 4
      [] pc = "unique" -> 5
      [] pc = "unique_ret" -> 6
      [] pc = "summary" -> 7
      [] pc = "close" -> 8
      [] pc = "done" -> 9

C6_Progress ==
    \/ Len(trace') = Len(trace) + 1 /\ PcRank' >= PcRank
    \/ trace' = trace /\ PcRank' > PcRank

C6_FixedCommandSequence == []C6_Script /\ [][C6_Progress]_vars

\* a session over two addresses that met a timeout and still ran to its end
C6_Witness ==
    /\ prog = "march_test" /\ choice = "5" /\ pc = "done"
    /\ end_addr > start_addr
    /\ \E k \in 1..Len(trace) : trace[k].op = "R" /\ IsTimeout(trace[k].resp)
    /\ Len(trace) = 16 * Total

(***************************************************************************)
(* C7: the fault list holds exactly one record per read whose outcome (the *)
(* word answered, or a timeout) differs from the expected value, in the    *)
(* order of the reads, each with the address, the name of the phase or     *)
(* algorithm, the expected value and the observed word.                    *)
(***************************************************************************)
Differs(e) == IsTimeout(e.resp) \/ RespWord(e) # e.val

Faulty == SelectSeq(Reads, Differs)

C7_FaultListExact ==
    prog = "march_test" =>
        /\ Len(Log) = Len(Faulty)
        /\ \A k \in 1..Len(Log) :
              /\ Log[k][1] = Faulty[k].addr
              /\ Log[k][2] = Faulty[k].tag
              /\ Log[k][3] = Faulty[k].val
              /\ ~IsTimeout(Faulty[k].resp) => Log[k][4] = RespWord(Faulty[k])

(***************************************************************************)
(* C8: the write command is 6 bytes and the read command 4 bytes: the      *)
(* opcode 0x57 or 0x52, an address field whose first byte has only its low *)
(* 2 bits set and whose three bytes read big-endian give the address, and  *)
(* for a write the two bytes of the word, high byte first.                 *)
(***************************************************************************)
C8_CommandLayout ==
    /\ pc = "codec_w" =>
          /\ Len(cOut) = 6
          /\ cOut[1] = 87
          /\ \A k \in 1..6 : cOut[k] \in 0..255
          /\ cOut[2] \in 0..3
          /\ cOut[2] * 65536 + cOut[3] * 256 + cOut[4] = cAddr
          /\ cOut[5] * 256 + cOut[6] = cWord
    /\ pc = "codec_r" =>
          /\ Len(cOut) = 4
          /\ cOut[1] = 82
          /\ \A k \in 1..4 : cOut[k] \in 0..255
          /\ cOut[2] \in 0..3
          /\ cOut[2] * 65536 + cOut[3] * 256 + cOut[4] = cAddr

C8_Witness ==
    /\ pc = "codec_w"
    /\ cAddr = FULL_END /\ cWord = DEAD
    /\ cOut = <<87, 3, 255, 255, 222, 173>>

(***************************************************************************)
(* C9: a word split into the two data bytes of the write command and       *)
(* decoded as a read response is the same word.                            *)
(***************************************************************************)
C9_RoundTrip == pc = "codec_rt" => cOut = <<cWord>>

C9_Witness == pc = "codec_rt" /\ cWord = PAT_AA55 /\ cOut = <<PAT_AA55>>

(***************************************************************************)
(* C10: no command is sent for an address outside [0, 0x3FFFF], and the    *)
(* address on the wire is the address asked for, never another one.        *)
(***************************************************************************)
C10_AddressesInRange ==
    prog = "march_test" =>
        /\ \A k \in 1..Len(trace) : trace[k].addr \in 0..FULL_END
        /\ trace # << >> => WireAddr(wire) = trace[Len(trace)].addr


(***************************************************************************)
(* C11: in the interactive terminal a write with an address outside        *)
(* [0, 0x3FFFF] or data outside [0, 0xFFFF], a read with an address        *)
(* outside [0, 0x3FFFF], and a write or read with a malformed number or a  *)
(* wrong number of arguments send no byte to the device, and the terminal  *)
(* stays at its prompt with the port open.                                 *)
(***************************************************************************)
IsWriteLine(l) == l.cmd \in {"w", "W", "write", "WRITE"}

IsReadLine(l) == l.cmd \in {"r", "R", "read", "READ"}

Malformed(w) == ~ParseNumber(w).ok

OutOf(w, last) == ParseNumber(w).ok /\ ParseNumber(w).val \notin 0..last

\* the lines the claim is about
Refused(l) ==
    \/ /\ IsWriteLine(l)
       /\ \/ Len(l.args) # 2
          \/ Malformed(l.args[1]) \/ Malformed(l.args[2])
          \/ OutOf(l.args[1], FULL_END) \/ OutOf(l.args[2], ALL_ONES)
    \/ /\ IsReadLine(l)
       /\ \/ Len(l.args) # 1
          \/ Malformed(l.args[1])
          \/ OutOf(l.args[1], FULL_END)

C11_Step ==
    (test_no' # test_no /\ Refused(line'))
        => /\ trace' = trace /\ wire' = wire /\ mem' = mem
           /\ pc' = "prompt" /\ ser' = "open"

C11_TerminalRefuses == [][C11_Step]_vars

\* "w 40000 0" was typed after a write that went out, and sent nothing
C11_Witness ==
    /\ prog = "mram_test" /\ pc = "prompt" /\ test_no = 2
    /\ line = [cmd |-> "w", args |-> <<<<"4", "0", "0", "0", "0">>,
                                       <<"0", "x", "1", "0", "0">>>>]
    /\ Len(trace) = 1

(***************************************************************************)
(* C12: every serial connection a session opens is closed before the       *)
(* process ends, on every exit path (normal completion, SerialException    *)
(* in the middle of a run, KeyboardInterrupt in the middle of a run): when *)
(* the process has ended, no connection is open.                           *)
(***************************************************************************)
C12_ClosedOnEveryExit ==
    (prog = "march_test" /\ pc \in Ended) => ser # "open"

(***************************************************************************)
(* C13: after a user interrupt during a test sequence the fault records    *)
(* accumulated before it, from the algorithms finished and from the one in *)
(* progress, are reported: the summary has been printed and it counts and  *)
(* lists them.  (No command follows the interrupt: no action is enabled    *)
(* once pc is in Ended.)                                                   *)
(***************************************************************************)
C13_ReportedAfterInterrupt ==
    (prog = "march_test" /\ pc \in {"exit0", "uncaught"} /\ Log # << >>)
        => /\ printed # << >>
           /\ printed[1].total = Len(Log)

(***************************************************************************)
(* C14: when the 2-byte response to a read arrives after that read's       *)
(* window, the late bytes are never decoded as the value of a later read:  *)
(* the two bytes every read decodes are the device's answer to that same   *)
(* read command.                                                           *)
(***************************************************************************)
C14_OwnResponseOnly ==
    dev = "late" =>
        \A k \in 1..Len(trace) :
            (trace[k].op = "R" /\ Len(trace[k].resp) >= 2)
                => (trace[k].src[1] = k /\ trace[k].src[2] = k)

(***************************************************************************)
(* C15: address_uniqueness_test over a range against an ideal memory       *)
(* returns no fault, and run twice in sequence over the same range it      *)
(* issues the same commands, gets the same answers and returns the same    *)
(* empty list both times, whatever the cells held before the first run.    *)
(***************************************************************************)
C15_UniqueIdempotent ==
    (prog = "call" /\ choice = "unique2" /\ dev = "plain" /\ glitches = 0) =>
        /\ errors = << >>
        /\ \A k \in 1..Len(results) : results[k] = << >>
        /\ pc = "returned" =>
              /\ Len(results) = 2
              /\ Len(trace) = 4 * Total
              /\ \A k \in 1..(2 * Total) :
                    /\ Cmd(trace[k]) = Cmd(trace[k + 2 * Total])
                    /\ trace[k].resp = trace[k + 2 * Total].resp

C15_Witness ==
    /\ prog = "call" /\ choice = "unique2" /\ dev = "plain" /\ glitches = 0
    /\ pc = "returned" /\ Len(results) = 2
    /\ fill = ALL_ONES /\ start_addr = 65535 /\ Total = 2 * MaxLen

(***************************************************************************)
(* C16: against a memory in which every write to address A also overwrites *)
(* address A ^ 0x1, address_uniqueness_test over a range made of whole     *)
(* pairs {A, A ^ 0x1} records a fault for both addresses of every pair.    *)
(* As amended: it records exactly one fault per pair, at the even address, *)
(* which is written first and overwritten by the write to its partner; the *)
(* value observed there is the partner's data.                             *)
(***************************************************************************)
FaultAddrs(errs) == {errs[k][1] : k \in 1..Len(errs)}

\* the first call of address_uniqueness_test on the aliasing device has
\* returned, and its range is made of whole pairs
AliasedPairsRun ==
    /\ prog = "call" /\ choice = "unique2" /\ dev = "xor1"
    /\ start_addr % 2 = 0 /\ Total % 2 = 0
    /\ Len(results) >= 1

C16_BothOfEachPair ==
    AliasedPairsRun => FaultAddrs(results[1]) = Range

C16_EvenOfEachPair ==
    AliasedPairsRun =>
        /\ FaultAddrs(results[1]) = {a \in Range : a % 2 = 0}
        /\ Len(results[1]) = Total \div 2
        /\ \A k \in 1..Len(results[1]) :
              LET a == start_addr + 2 * (k - 1) IN
              results[1][k] = <<a, "AddressUnique", a % WORDS, (a + 1) % WORDS>>

C16_Witness ==
    /\ AliasedPairsRun
    /\ start_addr = 57004 /\ Total = 4

(***************************************************************************)
(* C17: when two distinct addresses A and B of the tested range are one    *)
(* physical cell, address_uniqueness_test records at least one fault, also *)
(* when they differ only above bit 15 (B = A + 0x10000).  On the device    *)
(* that ignores address bits 16 and 17 a range of more than 0x10000        *)
(* addresses holds such a pair.                                            *)
(***************************************************************************)
C17_AliasDetected ==
    (prog = "call" /\ dev = "fold16" /\ pc = "returned"
        /\ end_addr - start_addr >= WORDS)
        => results[1] # << >>

(***************************************************************************)
(* C18: in the first checkerboard pass the pattern written to and expected *)
(* at an address is chosen by the parity of the address itself (0xAAAA at  *)
(* even addresses, as in every preset range, 0x5555 at odd ones), whether  *)
(* the start address is even or odd; the second pass uses the opposite     *)
(* assignment.                                                             *)
(* As amended: the pattern is chosen by the parity of the offset of the    *)
(* address from the start address, 0xAAAA at even offsets and 0x5555 at    *)
(* odd ones in the first pass, the opposite in the second; this is the     *)
(* parity of the address itself exactly when the start address is even.    *)
(***************************************************************************)
ByParity(x, even, odd) == IF x % 2 = 0 THEN even ELSE odd

\* the pattern of a command of checkerboard_test, chosen by the parity of x
PatternBy(e, x) ==
    IF e.tag = "Checkerboard"
    THEN ByParity(x, PAT_AAAA, PAT_5555)
    ELSE ByParity(x, PAT_5555, PAT_AAAA)

CheckerboardCall == prog = "call" /\ choice = "checkerboard"

C18_ByAddressParity ==
    CheckerboardCall =>
        \A k \in 1..Len(trace) : trace[k].val = PatternBy(trace[k], trace[k].addr)

C18_ByOffsetParity ==
    CheckerboardCall =>
        \A k \in 1..Len(trace) :
            /\ trace[k].val = PatternBy(trace[k], trace[k].addr - start_addr)
            /\ (start_addr % 2 = 0) <=>
                   (trace[k].val = PatternBy(trace[k], trace[k].addr))

C18_Witness ==
    /\ CheckerboardCall /\ pc = "returned"
    /\ start_addr = 65535 /\ Total = 2 * MaxLen

(***************************************************************************)
(* C19: in one checkerboard run every address of [start, end] is read and  *)
(* compared exactly twice, once against 0xAAAA and once against 0x5555;    *)
(* a verify pass starts only after its write pass has written every        *)
(* address of the range; and when an address is verified, the words last   *)
(* written to it and to its neighbour in the range are complementary.      *)
(***************************************************************************)
ReadsAt(a, v) ==
    {k \in 1..Len(trace) : trace[k].op = "R" /\ trace[k].addr = a /\ trace[k].val = v}

\* the addresses written in the pass of command k before command k
WrittenBefore(k) ==
    {trace[j].addr : j \in {j \in 1..(k - 1) :
                              trace[j].op = "W" /\ trace[j].tag = trace[k].tag}}

\* the word last written to address a before command k
LastWritten(a, k) ==
    LET ws == {j \in 1..(k - 1) : trace[j].op = "W" /\ trace[j].addr = a}
    IN  trace[LastOf(ws)].val

Complementary(v, w) == v + w = ALL_ONES /\ BitAnd(v, w) = 0

\* the fault records of the call, returned or still in the making
CallFaults == (IF results = << >> THEN << >> ELSE results[1]) \o errors

\* a fault record for the read e exists exactly if the value read differs
Compared(e) ==
    LET d == ReadResult(e.resp) IN
    (d # e.val) <=>
        (\E r \in 1..Len(CallFaults) : CallFaults[r] = <<e.addr, e.tag, e.val, d>>)

C19_CheckerboardPasses ==
    CheckerboardCall =>
        /\ \A k \in 1..Len(trace) :
              trace[k].op = "R" =>
                  /\ Compared(trace[k])
                  /\ WrittenBefore(k) = Range
                  /\ \A j \in (k + 1)..Len(trace) :
                        trace[j].tag = trace[k].tag => trace[j].op = "R"
                  /\ \A a \in {trace[k].addr - 1, trace[k].addr + 1} \cap Range :
                        Complementary(LastWritten(trace[k].addr, k), LastWritten(a, k))
        /\ pc = "returned" =>
              \A a \in Range :
                  /\ Cardinality(ReadsAt(a, PAT_AAAA)) = 1
                  /\ Cardinality(ReadsAt(a, PAT_5555)) = 1
                  /\ Cardinality({k \in 1..Len(trace) :
                                    trace[k].op = "R" /\ trace[k].addr = a}) = 2

C19_Witness ==
    /\ CheckerboardCall /\ pc = "returned"
    /\ start_addr = 57004 /\ Total = 2 * MaxLen /\ glitches = MaxGlitch

(***************************************************************************)
(* C20: the patterns of walking_ones_test are exactly the 16 values        *)
(* 1<<0 .. 1<<15, each used once per run, and the pattern of               *)
(* walking_zeros_test at position i is the 16-bit complement of the        *)
(* walking-ones pattern at position i: one bit cleared, within [0, 0xFFFF].*)
(***************************************************************************)
\* the values of the commands op of the test tagged tag, in order
ValuesOf(op, tag) ==
    LET Is(e) == e.op = op /\ e.tag = tag
        es == SelectSeq(trace, Is)
    IN  [k \in 1..Len(es) |-> es[k].val]

RECURSIVE PopCount(_)
PopCount(v) == IF v = 0 THEN 0 ELSE (v % 2) + PopCount(v \div 2)

OneBitEach(vs) ==
    /\ Len(vs) = WALK_COUNT
    /\ {vs[k] : k \in 1..Len(vs)} = {2 ^ b : b \in 0..(WALK_COUNT - 1)}
    /\ \A k \in 1..Len(vs) : vs[k] = 2 ^ (k - 1)

ComplementOf(zs, os) ==
    /\ Len(zs) = Len(os)
    /\ \A k \in 1..Len(zs) :
          /\ Complementary(zs[k], os[k])
          /\ zs[k] \in 0..ALL_ONES
          /\ PopCount(zs[k]) = WALK_COUNT - 1

C20_WalkingPatterns ==
    (prog = "call" /\ choice = "walking") =>
        /\ pc \in {"walk0", "returned"} =>
              /\ OneBitEach(ValuesOf("W", "Walking1s"))
              /\ OneBitEach(ValuesOf("R", "Walking1s"))
        /\ pc = "returned" =>
              /\ ComplementOf(ValuesOf("W", "Walking0s"), ValuesOf("W", "Walking1s"))
              /\ ComplementOf(ValuesOf("R", "Walking0s"), ValuesOf("R", "Walking1s"))

C20_Witness ==
    /\ prog = "call" /\ choice = "walking" /\ pc = "returned"
    /\ start_addr = 65535 /\ Len(trace) = 4 * WALK_COUNT

(***************************************************************************)
(* C21: walking_ones_test writes 1<<i to address start+i for i = 0..15,    *)
(* all 16 writes before its first read, then reads start+0 .. start+15 in  *)
(* that order and compares each read with the pattern written to that      *)
(* address; walking_zeros_test traverses the same way; no address outside  *)
(* [start, start+15] is accessed, in the call or on the wire.              *)
(***************************************************************************)
\* every list returned so far and the one in the making, one after another
RECURSIVE Flat(_)
Flat(ls) == IF ls = << >> THEN << >> ELSE Head(ls) \o Flat(Tail(ls))

AllCallFaults == Flat(results) \o errors

\* the read e left a fault record exactly if the value it returned differs
ComparedWith(e, faults) ==
    LET d == ReadResult(e.resp) IN
    (d # e.val) <=> (\E r \in 1..Len(faults) : faults[r] = <<e.addr, e.tag, e.val, d>>)

\* the k-th command of the two tests called in a row: the first 2 * 16 are
\* those of walking_ones_test, the others those of walking_zeros_test
WalkCommandAsClaimed(k) ==
    LET e == trace[k]
        n == (k - 1) % (2 * WALK_COUNT)
        j == n % WALK_COUNT
    IN  /\ e.tag = (IF k <= 2 * WALK_COUNT THEN "Walking1s" ELSE "Walking0s")
        /\ e.op = (IF n < WALK_COUNT THEN "W" ELSE "R")
        /\ e.addr = start_addr + j
        /\ e.val = (IF k <= 2 * WALK_COUNT THEN 2 ^ j ELSE ALL_ONES - 2 ^ j)
        /\ e.addr \in start_addr..(start_addr + WALK_COUNT - 1)
        /\ e.op = "R" => ComparedWith(e, AllCallFaults)

C21_WalkingTraversal ==
    (prog = "call" /\ choice = "walking") =>
        /\ Len(trace) <= 4 * WALK_COUNT
        /\ \A k \in 1..Len(trace) : WalkCommandAsClaimed(k)
        /\ trace # << >> =>
              /\ WireAddr(wire) = trace[Len(trace)].addr
              /\ WireAddr(wire) \in start_addr..(start_addr + WALK_COUNT - 1)
        /\ pc = "returned" => Len(trace) = 4 * WALK_COUNT

\* both tests have returned, one read of walking_zeros_test left a fault
C21_Witness ==
    /\ prog = "call" /\ choice = "walking" /\ pc = "returned"
    /\ start_addr = 57004
    /\ Len(results) = 2 /\ results[1] = << >> /\ Len(results[2]) = 1

(***************************************************************************)
(* C23: a read returns a decoded word only when at least 2 response bytes  *)
(* are in the input buffer at the end of the response window, and the word *)
(* is made of exactly the first 2 of them; with 0 or 1 byte the read times *)
(* out, and a byte that was in the buffer of a timed-out read is not among *)
(* the bytes decoded by that read or by any later read.                    *)
(***************************************************************************)
\* the reads issued so far, as positions of the history
ReadsAtPositions == {k \in 1..Len(trace) : trace[k].op = "R"}

\* the bytes the read at position k decoded, each as <<command, place>>
DecodedBy(k) ==
    IF Len(trace[k].resp) >= 2
    THEN {<<trace[k].src[q], trace[k].ix[q]>> : q \in 1..2}
    ELSE {}

\* the bytes in the buffer at the end of the window of the read at position k
BufferedAt(k) == {<<trace[k].src[q], trace[k].ix[q]>> : q \in 1..Len(trace[k].resp)}

C23_TwoBytesOrTimeout ==
    dev = "late" =>
        /\ \A k \in ReadsAtPositions :
              /\ Len(trace[k].resp) < 2 => trace[k].ret = DEAD
              /\ Len(trace[k].resp) >= 2
                    => trace[k].ret = trace[k].resp[1] * 256 + trace[k].resp[2]
              /\ Len(trace[k].resp) < 2 =>
                    \A j \in ReadsAtPositions :
                        j >= k => BufferedAt(k) \cap DecodedBy(j) = {}
        /\ ReadsAtPositions # {} => data = trace[LastOf(ReadsAtPositions)].ret

\* a read timed out with one byte in the buffer and a later read decoded a word
C23_Witness ==
    /\ dev = "late"
    /\ \E k \in ReadsAtPositions : \E j \in ReadsAtPositions :
          /\ j > k
          /\ Len(trace[k].resp) = 1
          /\ Len(trace[j].resp) >= 2
          /\ trace[j].src[1] = k

(***************************************************************************)
(* C24: against a memory that is ideal except that one bit of one cell     *)
(* inside [start, end] is stuck at 0 or stuck at 1, march_c_test records   *)
(* at least one fault, and every fault it records is at the address of the *)
(* stuck cell.                                                             *)
(***************************************************************************)
\* the fault records of March C so far
MarchFaults == LET Is(r) == r[2] \in MarchTags IN SelectSeq(Log, Is)

C24_MarchDetectsStuckAt ==
    (prog = "march_test" /\ dev = "stuck" /\ choice = "5") =>
        /\ \A k \in 1..Len(MarchFaults) : MarchFaults[k][1] = stuck.addr
        /\ MarchOver => MarchFaults # << >>

\* March C has returned from a range of two addresses whose upper cell has
\* the top bit stuck at 0
C24_Witness ==
    /\ prog = "march_test" /\ dev = "stuck" /\ choice = "5"
    /\ pc = "checker" /\ trace[Len(trace)].tag = "Phase6"
    /\ end_addr = start_addr + 1 /\ stuck = [addr |-> end_addr, bit |-> 15, val |-> 0]
    /\ MarchFaults # << >>

(***************************************************************************)
(* C25: against a memory that is ideal except that one bit (any position   *)
(* 0..15) of one word at an address in [start, start+15] is stuck at 0,    *)
(* walking_ones_test records at least one fault.                           *)
(***************************************************************************)
\* the fault records of walking_ones_test so far
WalkOnesFaults == LET Is(r) == r[2] = "Walking1s" IN SelectSeq(Log, Is)

C25_WalkingOnesDetectsStuckAt0 ==
    (/\ prog = "march_test" /\ dev = "stuck" /\ choice = "6"
     /\ stuck.val = 0 /\ stuck.addr \in 0..(WALK_COUNT - 1)
     /\ pc \notin {"connect", "walk1"})
        => WalkOnesFaults # << >>

(***************************************************************************)
(* C22: the session fault log is append-only and never deduplicates: every *)
(* fault record produced by March C, checkerboard and address-uniqueness   *)
(* in one session is kept, in order (March C, then checkerboard, then      *)
(* address-uniqueness); the session fault count is the sum of the three    *)
(* algorithms' counts, records already logged are never changed or         *)
(* removed, and an address that faults in several phases appears once per  *)
(* faulting read.                                                          *)
(***************************************************************************)
\* the record a read leaves when the value it returned is not the expected
RECURSIVE RecordsOf(_)
RecordsOf(es) ==
    IF es = << >> THEN << >>
    ELSE LET e == Head(es)
             d == ReadResult(e.resp)
         IN  (IF e.op = "R" /\ d # e.val THEN <<<<e.addr, e.tag, e.val, d>>>> ELSE << >>)
             \o RecordsOf(Tail(es))

\* which algorithm of the session a record comes from
AlgorithmOf(tag) ==
    CASE tag \in MarchTags -> 1
      [] tag \in {"Checkerboard", "InvCheckerboard"} -> 2
      [] OTHER -> 3

FaultCount(alg) ==
    Cardinality({k \in 1..Len(trace) :
                    /\ trace[k].op = "R"
                    /\ AlgorithmOf(trace[k].tag) = alg
                    /\ ReadResult(trace[k].resp) # trace[k].val})

C22_Log ==
    (prog = "march_test" /\ dev = "stuck" /\ choice = "5") =>
        /\ Log = RecordsOf(trace)
        /\ \A j \in 1..Len(Log) : \A k \in j..Len(Log) :
              AlgorithmOf(Log[j][2]) <= AlgorithmOf(Log[k][2])
        /\ pc \in {"summary", "close", "done"} =>
              /\ errors = << >>
              /\ Len(all_errors) = FaultCount(1) + FaultCount(2) + FaultCount(3)
        /\ printed # << >> => printed[1].total = Len(all_errors)

C22_Step ==
    (prog = "march_test" /\ dev = "stuck" /\ choice = "5") =>
        /\ IsPrefix(Log, Log')
        /\ IsPrefix(all_errors, all_errors')
        /\ pc \in {"march_ret", "checker_ret", "unique_ret"} =>
              Len(all_errors') = Len(all_errors) + Len(errors)

C22_AppendOnlyLog == []C22_Log /\ [][C22_Step]_vars

\* a finished session whose log holds the same address from March C, from
\* checkerboard and from address-uniqueness, and twice from March C
C22_Witness ==
    /\ prog = "march_test" /\ dev = "stuck" /\ choice = "5" /\ pc = "done"
    /\ \E a \in 1..Len(all_errors) : \E b \in 1..Len(all_errors) :
       \E c \in 1..Len(all_errors) : \E d \in 1..Len(all_errors) :
          /\ a < b /\ b < c /\ c < d
          /\ all_errors[a][1] = all_errors[d][1]
          /\ all_errors[b][1] = all_errors[d][1]
          /\ all_errors[c][1] = all_errors[d][1]
          /\ AlgorithmOf(all_errors[a][2]) = 1 /\ AlgorithmOf(all_errors[b][2]) = 1
          /\ AlgorithmOf(all_errors[c][2]) = 2 /\ AlgorithmOf(all_errors[d][2]) = 3

(***************************************************************************)
(* C26: march_c_test writes only addresses inside [start, end] and the     *)
(* last value it writes to every address of the range is 0x0000; against   *)
(* an ideal memory every cell in the range holds 0x0000 after the run and  *)
(* every cell outside the range is unchanged.                              *)
(***************************************************************************)
\* the last word written to address a by a command of March C
LastMarchWrite(a) ==
    LET ws == {k \in 1..Len(trace) :
                  trace[k].op = "W" /\ trace[k].tag \in MarchTags /\ trace[k].addr = a}
    IN  trace[LastOf(ws)].val

C26_MarchLeavesZeros ==
    (prog = "march_test" /\ dev = "plain" /\ choice = "5"
     /\ pc \in {"march", "march_ret"}) =>
        /\ \A k \in 1..Len(trace) : trace[k].op = "W" => trace[k].addr \in Range
        /\ \A c \in DOMAIN mem : c \in Range
        /\ pc = "march_ret" =>
              \A a \in Range : LastMarchWrite(a) = 0 /\ Stored(mem, fill, a) = 0

(***************************************************************************)
(* C27: the verify phase of the non-volatility test never changes the      *)
(* content of any address of the persisted test vector: it issues no write *)
(* to a test-vector address (its warm-up writes only address 0x3FFFF,      *)
(* which is not in the vector), and when the persisted vector is missing   *)
(* it returns failure without sending any command at all.                  *)
(***************************************************************************)
\* the addresses of the persisted test vector
VectorAddrs == {IntOf(file.entries[k][1], 16).val : k \in 1..Len(file.entries)}

\* verify_test_data is running
Verifying == pc \in {"verify", "warmup", "compare"}

\* the commands verify_test_data has sent, its warm-up included
VerifyCommands ==
    LET Is(e) == e.tag \in {"warmup", "verify"} IN SelectSeq(trace, Is)

C27_Inv ==
    prog = "nonvol" =>
        /\ \A k \in 1..Len(VerifyCommands) :
              VerifyCommands[k].op = "W" =>
                  /\ k = 1
                  /\ VerifyCommands[k].addr = FULL_END
                  /\ VerifyCommands[k].addr \notin VectorAddrs
        /\ WARMUP_WRITE \notin VectorAddrs
        /\ pc = "compare" => {test_data[k][1] : k \in 1..Len(test_data)} = VectorAddrs
        /\ (choice = "2" /\ ~file.exists) =>
              /\ trace = << >> /\ wire = << >>
              /\ pc \in {"close", "done"} => results = <<FALSE>>

C27_Step ==
    (prog = "nonvol" /\ Verifying) =>
        /\ file' = file
        /\ \A a \in VectorAddrs : Stored(mem', fill', a) = Stored(mem, fill, a)
        /\ pc = "compare" => mem' = mem

C27_VerifyWritesNothing == []C27_Inv /\ [][C27_Step]_vars

\* the full test has verified the vector it wrote, every word retained
C27_Witness ==
    /\ prog = "nonvol" /\ choice = "3" /\ pc = "done"
    /\ results = <<TRUE>>
    /\ Len(VerifyCommands) = 1 + Len(WarmupReads) + Len(TestData)
    /\ \A k \in 1..Len(TestData) : Stored(mem, fill, TestData[k][1]) = TestData[k][2]

====
